---- MODULE Spec2Model ----
(***************************************************************************)
(* Model of the Petri-net synthesis engine of src/PS/component-based.py:   *)
(* the PetriNet class (add_place, add_transition, add_edge,                *)
(* execute_transition, enabled_edges), construct_petri,                    *)
(* construct_reachability_graph, find_paths and ant_colony_optimization.   *)
(*                                                                         *)
(* A Python dict is modelled as the sequence of its <<key, value>> items   *)
(* in insertion order, because the program depends on that order:          *)
(* tuple(d.items()) is the graph's node and edge key, and the iteration    *)
(* order of a dict is the order of enabled transitions and of paths.       *)
(***************************************************************************)
EXTENDS Integers, Sequences, FiniteSets, TLC

VARIABLES petri_net, pc, call, worklist, visited_markings, visited_edges,
          reachability_graph, current_markings, enabled_transitions,
          expansions, paths_call, search, previous_graph, aco

vars == <<petri_net, pc, call, worklist, visited_markings, visited_edges,
          reachability_graph, current_markings, enabled_transitions,
          expansions, paths_call, search, previous_graph, aco>>

\* the local state of construct_reachability_graph
builder == <<worklist, visited_markings, visited_edges, reachability_graph,
             current_markings, enabled_transitions, expansions>>

(***************************************************************************)
(* Bounds of the model.                                                    *)
(***************************************************************************)
\* largest token count of a place in an initial marking or in a marking
\* handed to execute_transition / enabled_edges
MaxTokens == 2

\* ant_colony_optimization is called with num_ants * num_iterations (the
\* number of its rollouts) up to MaxBudget
MaxBudget == 2

\* longest path of a rollout that the model follows
MaxPathLen == 3

\* significant bits of a float sum (a Python float has 53)
MantissaBits == 6

\* the smallest positive float is 2^-MinExponent (a Python float: 2^-1074)
MinExponent == 3

\* a caller makes up to MaxCalls calls of add_place, add_transition and
\* add_edge on one net
MaxCalls == 3

\* the user-provided signature handed to construct_petri has up to
\* MaxParams parameters
MaxParams == 2

(***************************************************************************)
(* Python dicts as sequences of <<key, value>> items in insertion order.   *)
(***************************************************************************)
Range(s) == {s[i] : i \in 1..Len(s)}

\* list(d.keys())
RECURSIVE DictKeys(_)
DictKeys(d) == IF d = <<>> THEN <<>> ELSE <<d[1][1]>> \o DictKeys(Tail(d))

\* k in d
DictHas(d, k) == \E i \in 1..Len(d) : d[i][1] = k

\* d[k]  (only used where k in d)
DictGet(d, k) == d[CHOOSE i \in 1..Len(d) : d[i][1] = k][2]

\* d[k] = v : an existing key keeps its position, a new key is appended
DictSet(d, k, v) ==
    IF DictHas(d, k)
    THEN LET i == CHOOSE j \in 1..Len(d) : d[j][1] = k
         IN  SubSeq(d, 1, i - 1) \o <<<<k, v>>>> \o SubSeq(d, i + 1, Len(d))
    ELSE Append(d, <<k, v>>)

\* the same dict with its items listed in the opposite order
RECURSIVE Reversed(_)
Reversed(d) == IF d = <<>> THEN <<>> ELSE Append(Reversed(Tail(d)), Head(d))

\* d1 == d2 for dicts: same keys with the same values, in any order
DictEq(d1, d2) == Range(d1) = Range(d2)

\* tuple(d.items()) is the same sequence of items; two such tuples are equal
\* (=) only with the same items in the same order, two dicts (DictEq) with
\* the same items in any order.

(***************************************************************************)
(* class PetriNet                                                          *)
(***************************************************************************)
\* PetriNet.__init__  (declared is a history of the model: the order of the
\* add_transition calls, of which the program keeps only the set)
EmptyNet ==
    [places |-> {}, place_markings |-> <<>>, transitions |-> {}, edges |-> <<>>,
     declared |-> <<>>]

\* PetriNet.add_place
add_place(net, place, markings) ==
    [net EXCEPT !.places = @ \cup {place},
                !.place_markings = DictSet(@, place, markings)]

\* PetriNet.add_transition
add_transition(net, transition) ==
    [net EXCEPT !.transitions = @ \cup {transition},
                !.declared = IF transition \in net.transitions
                             THEN @ ELSE Append(@, transition)]

\* only the first of the two conditions: an edge that leaves a place
place_edge_raises(net, node1, node2) ==
    node1 \in net.places /\ node2 \notin net.transitions

\* the two raise ValueError conditions of PetriNet.add_edge
add_edge_raises(net, node1, node2) ==
    \/ node1 \in net.places /\ node2 \notin net.transitions
    \/ node1 \in net.transitions /\ node2 \notin net.places

\* PetriNet.add_edge: the net after the call (unchanged when it raises)
add_edge(net, node1, node2, weight) ==
    IF add_edge_raises(net, node1, node2)
    THEN net
    ELSE IF DictHas(net.edges, node1)
         THEN [net EXCEPT !.edges =
                  DictSet(@, node1, DictSet(DictGet(@, node1), node2, weight))]
         ELSE [net EXCEPT !.edges = DictSet(@, node1, <<<<node2, weight>>>>)]

\* PetriNet.get_markings
get_markings(net) == net.place_markings


(***************************************************************************)
(* PetriNet.execute_transition                                             *)
(*                                                                         *)
(* The caller's dict is the object "arg"; place_markings.copy() makes the  *)
(* object "fresh".  The result records what the call returned (or that it  *)
(* raised), whether the returned reference is the caller's own object, and *)
(* the content of the caller's object after the call.                      *)
(***************************************************************************)
\* updated_place_markings = place_markings.copy()
NoCopy(place_markings) == [obj |-> "arg", val |-> place_markings]

copy(place_markings) == [obj |-> "fresh", val |-> place_markings]

\* inputs = [place for place, edges in self.edges.items()
\*           if edges.get(transition) is not None]
transition_inputs(net, transition) ==
    LET HasEdge(item) == DictHas(item[2], transition)
    IN  DictKeys(SelectSeq(net.edges, HasEdge))

\* every edge taken to have weight 1
UnitWeight(net, node1, node2) == 1

\* edge_weight = self.edges[input_place][transition]
edge_weight(net, node1, node2) == DictGet(DictGet(net.edges, node1), node2)

\* (variants of the check loop: only the first input place is checked; a
\* place passes as soon as it holds any token)
FirstInputOnly(net, transition, m, inputs) ==
    IF inputs # <<>>
       /\ (\/ ~DictHas(m, inputs[1])
           \/ DictGet(m, inputs[1]) < edge_weight(net, inputs[1], transition))
    THEN 1 ELSE 0

AnyTokenPasses(net, transition, m, inputs) ==
    LET bad == {i \in 1..Len(inputs) :
                   \/ ~DictHas(m, inputs[i])
                   \/ DictGet(m, inputs[i]) = 0}
    IN  IF bad = {} THEN 0 ELSE CHOOSE i \in bad : \A j \in bad : i <= j

\* the check loop: the index of the first input place that ends the loop
\* (its key is missing from the marking, or it holds too few tokens), or 0
FirstFailingInput(net, transition, m, inputs) ==
    LET bad == {i \in 1..Len(inputs) :
                   \/ ~DictHas(m, inputs[i])
                   \/ DictGet(m, inputs[i]) < edge_weight(net, inputs[i], transition)}
    IN  IF bad = {} THEN 0 ELSE CHOOSE i \in bad : \A j \in bad : i <= j

\* (variant of the consume loop: the output place gains the weight of the
\* output edge with the first input place only)
ConsumeOutputOnce(net, transition, output_place, input_place, upd) ==
    LET afterIn == DictSet(upd, input_place,
                     DictGet(upd, input_place) - edge_weight(net, input_place, transition))
    IN  IF ~DictHas(afterIn, output_place)
        THEN [raised |-> TRUE, val |-> afterIn]
        ELSE IF input_place # transition_inputs(net, transition)[1]
        THEN [raised |-> FALSE, val |-> afterIn]
        ELSE [raised |-> FALSE,
              val |-> DictSet(afterIn, output_place,
                        DictGet(afterIn, output_place)
                          + edge_weight(net, transition, output_place))]

\* one pass of the consume loop for input place number i:
\*   updated[input_place] -= input_edge_weight
\*   updated[output_place] += output_edge_weight
\* (result "raised" when output_place is no key of the marking)
ConsumeOne(net, transition, output_place, input_place, upd) ==
    LET afterIn == DictSet(upd, input_place,
                     DictGet(upd, input_place) - edge_weight(net, input_place, transition))
    IN  IF ~DictHas(afterIn, output_place)
        THEN [raised |-> TRUE, val |-> afterIn]
        ELSE [raised |-> FALSE,
              val |-> DictSet(afterIn, output_place,
                        DictGet(afterIn, output_place)
                          + edge_weight(net, transition, output_place))]

\* for input_place in inputs: ... (from input number i on)
RECURSIVE ConsumeLoop(_, _, _, _, _, _)
ConsumeLoop(net, transition, output_place, inputs, i, upd) ==
    IF i > Len(inputs)
    THEN [raised |-> FALSE, val |-> upd]
    ELSE LET step == ConsumeOne(net, transition, output_place, inputs[i], upd)
         IN  IF step.raised
             THEN step
             ELSE ConsumeLoop(net, transition, output_place, inputs, i + 1, step.val)

\* the value of a call's result record
CallResult(status, updated, place_markings, returned_updated, val) ==
    [status    |-> status,
     value     |-> IF status = "raised" THEN <<>>
                   ELSE IF returned_updated THEN val ELSE place_markings,
     alias     |-> status = "returned" /\ (~returned_updated \/ updated.obj = "arg"),
     arg_after |-> IF updated.obj = "arg" THEN val ELSE place_markings]

execute_transition(net, transition, place_markings) ==
    LET updated == copy(place_markings)
        inputs  == transition_inputs(net, transition)
        failing == FirstFailingInput(net, transition, updated.val, inputs)
    IN  IF failing # 0
        THEN IF ~DictHas(updated.val, inputs[failing])
             THEN \* KeyError: updated_place_markings[input_place]
                  CallResult("raised", updated, place_markings, FALSE, updated.val)
             ELSE \* return place_markings
                  CallResult("returned", updated, place_markings, FALSE, updated.val)
        ELSE IF ~DictHas(net.edges, transition)
        THEN \* KeyError: self.edges[transition]
             CallResult("raised", updated, place_markings, FALSE, updated.val)
        ELSE LET output_place == DictKeys(DictGet(net.edges, transition))[1]
                 loop == ConsumeLoop(net, transition, output_place, inputs, 1, updated.val)
             IN  IF loop.raised
                 THEN CallResult("raised", updated, place_markings, FALSE, loop.val)
                 ELSE \* return updated_place_markings
                      CallResult("returned", updated, place_markings, TRUE, loop.val)


(***************************************************************************)
(* PetriNet.enabled_edges                                                  *)
(***************************************************************************)
\* for destination_node, weight in self.edges[place].items():
\*     if marking >= weight and destination_node not in enabled_edges: append
RECURSIVE EnabledFromPlace(_, _, _, _)
EnabledFromPlace(out_edges, i, marking, enabled) ==
    IF i > Len(out_edges)
    THEN enabled
    ELSE LET destination_node == out_edges[i][1]
             weight == out_edges[i][2]
         IN  IF marking >= weight /\ destination_node \notin Range(enabled)
             THEN EnabledFromPlace(out_edges, i + 1, marking,
                                   Append(enabled, destination_node))
             ELSE EnabledFromPlace(out_edges, i + 1, marking, enabled)

\* for place, marking in place_markings.items():
\*     if marking != 0 and place in self.edges: ...
RECURSIVE EnabledLoop(_, _, _, _)
EnabledLoop(net, place_markings, i, enabled) ==
    IF i > Len(place_markings)
    THEN enabled
    ELSE LET place == place_markings[i][1]
             marking == place_markings[i][2]
         IN  IF marking # 0 /\ DictHas(net.edges, place)
             THEN EnabledLoop(net, place_markings, i + 1,
                    EnabledFromPlace(DictGet(net.edges, place), 1, marking, enabled))
             ELSE EnabledLoop(net, place_markings, i + 1, enabled)

enabled_edges(net, place_markings) == EnabledLoop(net, place_markings, 1, <<>>)

(***************************************************************************)
(* The nets of the model: the nets the tests of the source build, and      *)
(* small variations of them, each built with the calls of the PetriNet     *)
(* API and with every initial token count up to MaxTokens.                 *)
(***************************************************************************)
Tokens == 0..MaxTokens

\* test_construct_reachability_graph: P1 -> T1 -> P2 -> T2 -> P3
ChainNet(a, b, c) ==
    LET n1 == add_place(add_place(add_place(EmptyNet, "P1", a), "P2", b), "P3", c)
        n2 == add_transition(add_transition(n1, "T1"), "T2")
    IN  add_edge(add_edge(add_edge(add_edge(n2,
            "P1", "T1", 1), "T1", "P2", 1), "P2", "T2", 1), "T2", "P3", 1)

\* test_execute_transition: the first net (T1 has the one input place P1)
OneInputNet(a, b, c) ==
    LET n1 == add_place(add_place(add_place(EmptyNet, "P1", a), "P2", b), "P3", c)
    IN  add_edge(add_edge(add_transition(n1, "T1"), "P1", "T1", 2), "T1", "P2", 1)

\* test_execute_transition: the first net, then the second built over it
TwoInputNet(a, b, c) ==
    LET n1 == add_place(add_place(add_place(EmptyNet, "P1", 2), "P2", 1), "P3", 0)
        n2 == add_edge(add_edge(add_transition(n1, "T1"),
                  "P1", "T1", 2), "T1", "P2", 1)
        n3 == add_place(add_place(add_place(n2, "P1", a), "P2", b), "P3", c)
    IN  add_edge(add_edge(add_edge(add_transition(n3, "T1"),
            "P1", "T1", 2), "P3", "T1", 1), "T1", "P2", 1)

\* test_enabled_edges: three transitions, none with an output edge yet
EnabledTestNet(a, b, c) ==
    LET n1 == add_place(add_place(add_place(EmptyNet, "P1", a), "P2", b), "P3", c)
        n2 == add_transition(add_transition(add_transition(n1, "T1"), "T2"), "T3")
    IN  add_edge(add_edge(add_edge(add_edge(n2,
            "P1", "T1", 2), "P2", "T1", 1), "P2", "T2", 1), "P3", "T3", 2)

\* a net whose reachability graph has a cycle: T1 and T2 move a token
\* between P1 and P2, T3 moves it on to P3
CycleNet(a, b, c) ==
    LET n1 == add_place(add_place(add_place(EmptyNet, "P1", a), "P2", b), "P3", c)
        n2 == add_transition(add_transition(add_transition(n1, "T1"), "T2"), "T3")
    IN  add_edge(add_edge(add_edge(add_edge(add_edge(add_edge(n2,
            "P1", "T1", 1), "T1", "P2", 1), "P2", "T2", 1), "T2", "P1", 1),
            "P2", "T3", 1), "T3", "P3", 1)

\* test_find_paths: Multiplication, Addition, Subtraction on place int
IntNet(a, b) ==
    LET n1 == add_place(add_place(add_place(EmptyNet, "int", a), "str", b), "bool", 0)
        n2 == add_transition(add_transition(add_transition(add_transition(
                  add_transition(n1, "Multiplication"), "Addition"), "Subtraction"),
                  "Concat"), "EqualityCheck")
        n3 == add_edge(add_edge(add_edge(n2, "int", "Multiplication", 2),
                  "int", "Addition", 2), "int", "Subtraction", 2)
        n4 == add_edge(add_edge(add_edge(n3, "Multiplication", "int", 1),
                  "Addition", "int", 1), "Subtraction", "int", 1)
    IN  add_edge(add_edge(add_edge(add_edge(n4, "str", "Concat", 2),
            "Concat", "str", 1), "int", "EqualityCheck", 2), "EqualityCheck", "bool", 1)

\* test_find_paths: the Shape / Point2D net
ShapeNet(a) ==
    LET n1 == add_place(add_place(add_place(add_place(EmptyNet, "Shape", a),
                  "string", 0), "Point2D", 0), "double", 0)
        n2 == add_transition(add_transition(add_transition(add_transition(
                  add_transition(n1, "createTransShape"), "toString"),
                  "createPoint2D"), "getX"), "setToRotation")
        n3 == add_edge(add_edge(add_edge(add_edge(n2,
                  "Shape", "createTransShape", 1), "createTransShape", "Point2D", 1),
                  "Shape", "toString", 1), "toString", "string", 1)
        n4 == add_edge(add_edge(add_edge(add_edge(n3,
                  "Point2D", "createPoint2D", 1), "createPoint2D", "Point2D", 1),
                  "Point2D", "getX", 1), "getX", "double", 1)
    IN  add_edge(add_edge(n4, "Shape", "setToRotation", 1), "setToRotation", "Shape", 1)

\* test_find_paths: the chain P1 .. P5 with the extra branch P2 -> T5 -> P5
BranchNet(a) ==
    LET n1 == add_place(add_place(add_place(add_place(add_place(EmptyNet,
                  "P1", a), "P2", 0), "P3", 0), "P4", 0), "P5", 0)
        n2 == add_transition(add_transition(add_transition(add_transition(
                  add_transition(n1, "T1"), "T2"), "T3"), "T4"), "T5")
        n3 == add_edge(add_edge(add_edge(add_edge(n2,
                  "P1", "T1", 1), "T1", "P2", 1), "P2", "T2", 1), "T2", "P3", 1)
        n4 == add_edge(add_edge(add_edge(add_edge(n3,
                  "P3", "T3", 1), "T3", "P4", 1), "P4", "T4", 1), "T4", "P5", 1)
    IN  add_edge(add_edge(n4, "P2", "T5", 1), "T5", "P5", 1)

\* a transition without input edges (as AffineTrans in test_find_paths)
SourceNet(a, b) ==
    LET n1 == add_place(add_place(EmptyNet, "P1", a), "P2", b)
        n2 == add_transition(add_transition(n1, "T1"), "T2")
    IN  add_edge(add_edge(add_edge(n2, "T1", "P1", 1), "P1", "T2", 1), "T2", "P2", 1)

\* a transition with two input places whose output place is one of them
FeedbackNet(a, b) ==
    LET n1 == add_place(add_place(EmptyNet, "P1", a), "P2", b)
        n2 == add_transition(n1, "T1")
    IN  add_edge(add_edge(add_edge(n2, "P1", "T1", 1), "P2", "T1", 1), "T1", "P1", 1)

\* two transitions declared in the order T1, T2 whose edges are added in
\* the order T2, T1
EdgeOrderNet(a) ==
    LET n1 == add_place(add_place(EmptyNet, "P1", a), "P2", 0)
        n2 == add_transition(add_transition(n1, "T1"), "T2")
    IN  add_edge(add_edge(add_edge(add_edge(n2,
            "P1", "T2", 1), "T2", "P2", 1), "P1", "T1", 1), "T1", "P2", 1)

Nets ==
    {EmptyNet}
    \cup {ChainNet(a, b, 0) : a \in Tokens, b \in Tokens}
    \cup {OneInputNet(a, b, 0) : a \in Tokens, b \in Tokens}
    \cup {TwoInputNet(a, b, c) : a \in Tokens, b \in Tokens, c \in Tokens}
    \cup {EnabledTestNet(a, b, c) : a \in Tokens, b \in Tokens, c \in Tokens}
    \cup {CycleNet(a, 0, 0) : a \in Tokens}
    \cup {IntNet(a, b) : a \in Tokens, b \in Tokens}
    \cup {ShapeNet(a) : a \in Tokens}
    \cup {BranchNet(a) : a \in {0, 1}}
    \cup {SourceNet(a, b) : a \in Tokens, b \in Tokens}
    \cup {FeedbackNet(a, b) : a \in Tokens, b \in Tokens}
    \cup {EdgeOrderNet(a) : a \in Tokens}

\* the marking with no token in any place of the net
RECURSIVE ZeroOf(_)
ZeroOf(m) == IF m = <<>> THEN <<>> ELSE <<<<m[1][1], 0>>>> \o ZeroOf(Tail(m))

ZeroMarking(net) == ZeroOf(net.place_markings)

(***************************************************************************)
(* State machine.                                                          *)
(***************************************************************************)
NoCall == [op |-> "none", transition |-> "", marking |-> <<>>, result |-> <<>>]

Init ==
    /\ petri_net \in Nets
    /\ pc = "idle"
    /\ call = NoCall
    /\ worklist = <<>>
    /\ visited_markings = {}
    /\ visited_edges = {}
    /\ reachability_graph = [nodes |-> {}, edges |-> <<>>]
    /\ current_markings = <<>>
    /\ enabled_transitions = <<>>
    /\ expansions = <<>>
    /\ paths_call = <<>>
    /\ search = <<>>
    /\ previous_graph = <<>>
    /\ aco = <<>>

\* a caller fires one transition of the net on a copy of the net's markings
\* (petri_net.execute_transition(transition, petri_net.get_markings()))
ExecuteTransition ==
    /\ pc = "idle"
    /\ \E transition \in petri_net.transitions :
           call' = [op |-> "execute_transition", transition |-> transition,
                    marking |-> get_markings(petri_net),
                    result |-> execute_transition(petri_net, transition,
                                                  get_markings(petri_net))]
    /\ pc' = "called"
    /\ UNCHANGED <<petri_net, builder, paths_call, search, previous_graph, aco>>

\* a caller asks for the transitions enabled by the net's markings, listed
\* in the net's order or in the opposite order
EnabledEdges ==
    /\ pc = "idle"
    /\ \E m \in {get_markings(petri_net), Reversed(get_markings(petri_net))} :
           call' = [op |-> "enabled_edges", transition |-> "", marking |-> m,
                    result |-> enabled_edges(petri_net, m)]
    /\ pc' = "called"
    /\ UNCHANGED <<petri_net, builder, paths_call, search, previous_graph, aco>>

(***************************************************************************)
(* class ReachabilityGraph: nodes is a set of item tuples, edges a dict     *)
(* from a source tuple to a dict from transition to successor tuple.       *)
(***************************************************************************)
EmptyGraph == [nodes |-> {}, edges |-> <<>>]

\* (variant of add_node that adds nothing)
graph_keep_nodes(graph, node) == graph

\* ReachabilityGraph.add_node: self.nodes.add(tuple(node.items()))
graph_add_node(graph, node) == [graph EXCEPT !.nodes = @ \cup {node}]

\* ReachabilityGraph.add_edge
graph_add_edge(graph, source, transition, destination) ==
    IF ~DictHas(graph.edges, source)
    THEN [graph EXCEPT !.edges = DictSet(@, source, <<<<transition, destination>>>>)]
    ELSE [graph EXCEPT !.edges =
             DictSet(@, source, DictSet(DictGet(@, source), transition, destination))]

(***************************************************************************)
(* construct_reachability_graph                                            *)
(***************************************************************************)
\* (variant: the comparison never finds the two tuples equal)
NeverSameTuple(successor_markings_tuple, current_markings_tuple) == FALSE

\* if successor_markings_tuple == current_markings_tuple: continue
SameMarkingTuple(successor_markings_tuple, current_markings_tuple) ==
    successor_markings_tuple = current_markings_tuple

\* (variant: the successor is not put on the worklist)
WorklistUnchanged(wl, successor_markings) == wl

\* worklist.append(successor_markings)
worklist_append(wl, successor_markings) == Append(wl, successor_markings)

\* the body of "for transition in enabled_transitions" after the call of
\* execute_transition, whose result is fired; acc holds the graph,
\* visited_edges and the worklist, and whether execute_transition raised
ExpandTransition(acc, current, transition, fired) ==
    LET successor_markings == fired.value
        edge == <<current, transition, successor_markings>>
    IN  IF fired.status = "raised"
        THEN [acc EXCEPT !.raised = TRUE]
        ELSE IF SameMarkingTuple(successor_markings, current)
        THEN acc
        ELSE IF edge \in acc.visited_edges
        THEN acc
        ELSE [acc EXCEPT
                !.visited_edges = @ \cup {edge},
                !.graph = graph_add_edge(graph_add_node(@, successor_markings),
                              current, transition, successor_markings),
                !.worklist = worklist_append(@, successor_markings)]

\* (variant: the visited set of the previous call is used again)
KeptVisitedMarkings == visited_markings

\* visited_markings = set()
NewVisitedMarkings == {}

\* initial_markings = petri_net.place_markings.copy()
initial_markings(net) == copy(net.place_markings)

\* the dict being expanded is the net's own place_markings: only the first
\* marking taken from the worklist can be, and only if it is no copy
OwnTokens == initial_markings(petri_net).obj = "arg" /\ Len(expansions) = 1

\* lines 238-242: the graph, the worklist and the visited sets are created
StartBuild ==
    /\ pc = "idle"
    /\ pc' = "building"
    /\ reachability_graph' = EmptyGraph
    /\ worklist' = <<initial_markings(petri_net).val>>
    /\ visited_markings' = NewVisitedMarkings
    /\ visited_edges' = {}
    /\ UNCHANGED <<petri_net, call, current_markings, enabled_transitions,
                   expansions, paths_call, search, previous_graph, aco>>

\* the caller keeps the graph it got and calls
\* construct_reachability_graph(petri_net) a second time
BuildAgain ==
    /\ pc = "done"
    /\ previous_graph = <<>>
    /\ previous_graph' = reachability_graph
    /\ pc' = "building"
    /\ reachability_graph' = EmptyGraph
    /\ worklist' = <<initial_markings(petri_net).val>>
    /\ visited_markings' = NewVisitedMarkings
    /\ visited_edges' = {}
    /\ expansions' = <<>>
    /\ UNCHANGED <<petri_net, call, current_markings, enabled_transitions,
                   paths_call, search, aco>>

\* (variant of the loop head without the visited test: every marking taken
\* from the worklist is expanded)
BuildPopAlways ==
    /\ pc = "building"
    /\ worklist # <<>>
    /\ worklist' = Tail(worklist)
    /\ current_markings' = Head(worklist)
    /\ visited_markings' = visited_markings \cup {Head(worklist)}
    /\ reachability_graph' = graph_add_node(reachability_graph, Head(worklist))
    /\ enabled_transitions' = enabled_edges(petri_net, Head(worklist))
    /\ expansions' = Append(expansions, Head(worklist))
    /\ pc' = IF enabled_edges(petri_net, Head(worklist)) = <<>>
             THEN "building" ELSE "expanding"
    /\ UNCHANGED <<petri_net, call, visited_edges, paths_call, search,
                   previous_graph, aco>>

\* "while worklist": pop a marking; skip it when it was visited, else record
\* it as visited and as a node and list its enabled transitions
BuildPop ==
    /\ pc = "building"
    /\ worklist # <<>>
    /\ worklist' = Tail(worklist)
    /\ IF Head(worklist) \in visited_markings
       THEN UNCHANGED <<pc, visited_markings, reachability_graph,
                        current_markings, enabled_transitions, expansions>>
       ELSE /\ current_markings' = Head(worklist)
            /\ visited_markings' = visited_markings \cup {Head(worklist)}
            /\ reachability_graph' = graph_add_node(reachability_graph, Head(worklist))
            /\ enabled_transitions' = enabled_edges(petri_net, Head(worklist))
            /\ expansions' = Append(expansions, Head(worklist))
            /\ pc' = IF enabled_edges(petri_net, Head(worklist)) = <<>>
                     THEN "building" ELSE "expanding"
    /\ UNCHANGED <<petri_net, call, visited_edges, paths_call, search,
                   previous_graph, aco>>

\* one pass of "for transition in enabled_transitions"; a raise of
\* execute_transition ends the builder
BuildExpand ==
    /\ pc = "expanding"
    /\ enabled_transitions # <<>>
    /\ \E fired \in {execute_transition(petri_net, Head(enabled_transitions),
                                        current_markings)} :
       \E acc \in {ExpandTransition([graph |-> reachability_graph,
                                     visited_edges |-> visited_edges,
                                     worklist |-> worklist,
                                     raised |-> FALSE],
                                    current_markings, Head(enabled_transitions),
                                    fired)} :
           /\ reachability_graph' = acc.graph
           /\ visited_edges' = acc.visited_edges
           /\ worklist' = acc.worklist
           /\ pc' = IF acc.raised THEN "raised"
                    ELSE IF Tail(enabled_transitions) = <<>> THEN "building"
                    ELSE "expanding"
    /\ enabled_transitions' = Tail(enabled_transitions)
    /\ petri_net' = IF OwnTokens
                    THEN [petri_net EXCEPT !.place_markings =
                             execute_transition(petri_net,
                                                Head(enabled_transitions),
                                                current_markings).arg_after]
                    ELSE petri_net
    /\ UNCHANGED <<call, visited_markings, current_markings,
                   expansions, paths_call, search, previous_graph, aco>>

\* the worklist is empty: return reachability_graph
BuildReturn ==
    /\ pc = "building"
    /\ worklist = <<>>
    /\ pc' = "done"
    /\ UNCHANGED <<petri_net, call, builder, paths_call, search, previous_graph, aco>>

(***************************************************************************)
(* find_paths                                                              *)
(***************************************************************************)
\* (variant: the two markings are compared as item tuples, order included)
SameItemTuple(current_marking, desired_marking) == current_marking = desired_marking

\* if current_marking == desired_marking  (a comparison of two dicts)
ReachedDesired(current_marking, desired_marking) ==
    DictEq(current_marking, desired_marking)

\* enabled_transitions = reachability_graph.edges.get(current_marking, {})
\* (the key is tuple(current_marking.items()))
edges_get(graph, current_marking) ==
    IF DictHas(graph.edges, current_marking)
    THEN DictGet(graph.edges, current_marking)
    ELSE <<>>

\* (variant: no successor is taken for visited)
AlwaysNotVisited(successor_marking, visited) == TRUE

\* if successor_marking not in new_visited_markings
NotVisited(successor_marking, new_visited_markings) ==
    successor_marking \notin new_visited_markings

\* (variant: the start marking is not put into the visited set)
NothingVisited(start_marking) == {}

\* visited_markings = set(); visited_markings.add(tuple(start_marking.items()))
InitialVisited(start_marking) == {start_marking}

\* new_visited_markings = set(visited_markings);
\* new_visited_markings.add(successor_marking)
new_visited_markings(visited, successor_marking) == visited \cup {successor_marking}

RECURSIVE backtrack(_, _, _, _, _)
RECURSIVE BranchLoop(_, _, _, _, _, _)

\* find_paths.backtrack written as a recursion: the paths it appends to
\* paths, in order
backtrack(graph, desired_marking, path, current_marking, visited) ==
    IF ReachedDesired(current_marking, desired_marking)
    THEN <<path>>
    ELSE BranchLoop(graph, desired_marking, path,
                    edges_get(graph, current_marking), 1, visited)

\* for transition, successor_marking in enabled_transitions.items(): ...
\* (successors is the dict enabled_transitions of the source)
BranchLoop(graph, desired_marking, path, successors, i, visited) ==
    IF i > Len(successors)
    THEN <<>>
    ELSE LET transition == successors[i][1]
             successor_marking == successors[i][2]
             found == IF NotVisited(successor_marking, visited)
                      THEN backtrack(graph, desired_marking,
                                     Append(path, transition), successor_marking,
                                     new_visited_markings(visited, successor_marking))
                      ELSE <<>>
         IN  found \o BranchLoop(graph, desired_marking, path,
                                 successors, i + 1, visited)

find_paths(graph, start_marking, desired_marking) ==
    backtrack(graph, desired_marking, <<>>, start_marking,
              InitialVisited(start_marking))

\* the start markings a caller hands to find_paths: a node of the graph as
\* the builder lists it, or the net's initial marking listed in the
\* opposite order
StartMarkings ==
    reachability_graph.nodes \cup {Reversed(petri_net.place_markings)}

\* the desired markings: a node of the graph, or the marking without tokens
\* (which the builder reaches only from a net without tokens)
DesiredMarkings == reachability_graph.nodes \cup {ZeroMarking(petri_net)}

\* the deepest nesting of backtrack calls the interpreter allows before it
\* raises RecursionError; the model takes a limit just above the depth a
\* search without revisits can reach (one call per marking of the graph,
\* and one for a start marking that is no node)
RecursionLimit == Cardinality(reachability_graph.nodes) + 2

\* a call backtrack(path, current_marking, visited) made in the search s:
\* at desired the path is recorded and the call returns at once; else the
\* call starts the loop over the outgoing transitions of current_marking
backtrack_call(s, path, current_marking, visited) ==
    IF ReachedDesired(current_marking, s.desired)
    THEN [s EXCEPT !.paths = Append(@, path)]
    ELSE [s EXCEPT !.path = path,
                   !.stack = Append(@, [current_marking |-> current_marking,
                                        visited |-> visited,
                                        successors |->
                                            edges_get(reachability_graph,
                                                      current_marking),
                                        i |-> 1])]

\* (variant of the pass: the successor is added to the caller's own set
\* instead of to a copy of it)
backtrack_pass_shared(s, top) ==
    LET transition == top.successors[top.i][1]
        successor_marking == top.successors[top.i][2]
        advanced == [s EXCEPT !.stack[Len(s.stack)].i = top.i + 1]
        marked == [advanced EXCEPT !.stack[Len(s.stack)].visited =
                      @ \cup {successor_marking}]
    IN  IF NotVisited(successor_marking, top.visited)
        THEN backtrack_call(marked, Append(s.path, transition), successor_marking,
                            new_visited_markings(top.visited, successor_marking))
        ELSE advanced

\* one pass of the loop of the innermost call (top): the transition is
\* appended to the path, the successor is entered when it is not visited,
\* and the transition is popped again when the pass is over
backtrack_pass(s, top) ==
    LET transition == top.successors[top.i][1]
        successor_marking == top.successors[top.i][2]
        advanced == [s EXCEPT !.stack[Len(s.stack)].i = top.i + 1]
    IN  IF NotVisited(successor_marking, top.visited)
        THEN backtrack_call(advanced, Append(s.path, transition), successor_marking,
                            new_visited_markings(top.visited, successor_marking))
        ELSE advanced

\* the loop of the innermost call is over: the call returns, and its
\* caller pops the transition that led to it
backtrack_return(s) ==
    [s EXCEPT !.stack = SubSeq(@, 1, Len(@) - 1),
              !.path = IF Len(s.stack) > 1 THEN SubSeq(@, 1, Len(@) - 1) ELSE @]

\* a caller searches the finished graph: find_paths(reachability_graph,
\* start_marking, desired_marking) makes the first call of backtrack
FindPaths ==
    /\ pc = "done"
    /\ pc' = "searching"
    /\ \E start_marking \in StartMarkings, desired_marking \in DesiredMarkings :
           search' = backtrack_call([start |-> start_marking,
                                     desired |-> desired_marking,
                                     paths |-> <<>>, path |-> <<>>, stack |-> <<>>],
                                    <<>>, start_marking,
                                    InitialVisited(start_marking))
    /\ UNCHANGED <<petri_net, call, builder, paths_call, previous_graph, aco>>

\* one step of the innermost backtrack call
Backtrack ==
    /\ pc = "searching"
    /\ search.stack # <<>>
    /\ \E top \in {search.stack[Len(search.stack)]} :
           IF top.i > Len(top.successors)
           THEN /\ search' = backtrack_return(search)
                /\ pc' = pc
           ELSE \E after \in {backtrack_pass(search, top)} :
                    IF Len(after.stack) > RecursionLimit
                    THEN /\ pc' = "raised"
                         /\ search' = search
                    ELSE /\ pc' = pc
                         /\ search' = after
    /\ UNCHANGED <<petri_net, call, builder, paths_call, previous_graph, aco>>

\* the first call of backtrack has returned: return paths
FindPathsReturn ==
    /\ pc = "searching"
    /\ search.stack = <<>>
    /\ pc' = "searched"
    /\ paths_call' = [start |-> search.start, desired |-> search.desired,
                      result |-> search.paths]
    /\ UNCHANGED <<petri_net, call, builder, search, previous_graph, aco>>

(***************************************************************************)
(* Pheromone weights and probabilities are Python floats; the model        *)
(* computes with the fractions <<numerator, denominator>> they stand for,  *)
(* in lowest terms with a positive denominator.  Each operation binds its  *)
(* operands (a \in {x}) so that a nested expression is evaluated once.     *)
(***************************************************************************)
RECURSIVE Gcd(_, _)
Gcd(a, b) == IF b = 0 THEN a ELSE Gcd(b, a % b)

Frac(n, d) ==
    CHOOSE r \in {IF m = 0 THEN <<0, 1>>
                  ELSE <<m \div Gcd(IF m < 0 THEN -m ELSE m, e),
                         e \div Gcd(IF m < 0 THEN -m ELSE m, e)>> :
                      m \in {n}, e \in {d}} : TRUE

FracAdd(x, y) ==
    CHOOSE r \in {Frac(a[1] * b[2] + b[1] * a[2], a[2] * b[2]) :
                      a \in {x}, b \in {y}} : TRUE

FracMul(x, y) ==
    CHOOSE r \in {Frac(a[1] * b[1], a[2] * b[2]) : a \in {x}, b \in {y}} : TRUE

FracDiv(x, y) ==
    CHOOSE r \in {Frac(a[1] * b[2], a[2] * b[1]) : a \in {x}, b \in {y}} : TRUE

FracLe(x, y) == \E a \in {x}, b \in {y} : a[1] * b[2] <= b[1] * a[2]

FracLt(x, y) == \E a \in {x}, b \in {y} : a[1] * b[2] < b[1] * a[2]

\* 2 ** n
RECURSIVE Pow2(_)
Pow2(n) == IF n = 0 THEN 1 ELSE 2 * Pow2(n - 1)

\* the whole number nearest to n / d, the even one of two equally near
NearestEven(n, d) ==
    LET q == n \div d
        r == n % d
    IN  IF 2 * r < d THEN q
        ELSE IF 2 * r > d THEN q + 1
        ELSE IF q % 2 = 0 THEN q ELSE q + 1

\* x >= 0 rounded to MantissaBits significant bits: scale is the power of
\* two (a fraction) that brings x into 2 ** (MantissaBits - 1) .. 2 ** MantissaBits
RECURSIVE RoundAt(_, _)
RoundAt(x, scale) ==
    CHOOSE r \in
        {IF v[1] = 0 THEN v
         ELSE IF FracLt(scaled, <<Pow2(MantissaBits - 1), 1>>)
         THEN RoundAt(v, FracMul(s, <<2, 1>>))
         ELSE IF FracLe(<<Pow2(MantissaBits), 1>>, scaled)
         THEN RoundAt(v, FracMul(s, <<1, 2>>))
         ELSE FracDiv(<<NearestEven(scaled[1], scaled[2]), 1>>, s) :
             <<v, s, scaled>> \in {<<x, scale, FracMul(x, scale)>>}} : TRUE

\* a float addition whose result is rounded: the order of such additions
\* can change their sum
FloatAdd(x, y) ==
    CHOOSE r \in {RoundAt(sum, <<1, 1>>) : sum \in {FracAdd(x, y)}} : TRUE

\* the bottom of the float range: a positive result below the smallest
\* positive float is rounded to it or, from half of it down, to 0.0
MinPositive == <<1, Pow2(MinExponent)>>

Underflow(x) ==
    IF x[1] <= 0 \/ FracLe(MinPositive, x) THEN x
    ELSE IF FracLe(x, FracMul(MinPositive, <<1, 2>>)) THEN <<0, 1>>
    ELSE MinPositive

\* x * y for a pheromone weight x, the one float of the program that keeps
\* shrinking
FloatMul(x, y) ==
    CHOOSE r \in {Underflow(product) : product \in {FracMul(x, y)}} : TRUE

\* weight ** alpha for the whole exponents of the model
RECURSIVE FracPow(_, _)
FracPow(x, n) == IF n = 0 THEN <<1, 1>> ELSE FracMul(x, FracPow(x, n - 1))

(***************************************************************************)
(* Graphs made by hand with ReachabilityGraph.add_node and add_edge, as    *)
(* test_ant_colony_optimization makes its graph.                           *)
(***************************************************************************)
ABC(a, b, c) == <<<<"A", a>>, <<"B", b>>, <<"C", c>>>>

\* test_ant_colony_optimization: three nodes and three edges; the
\* successor of transition3 is no node
TestGraph ==
    LET g1 == graph_add_node(graph_add_node(graph_add_node(EmptyGraph,
                  ABC(0, 0, 0)), ABC(1, 0, 0)), ABC(1, 1, 0))
    IN  graph_add_edge(graph_add_edge(graph_add_edge(g1,
            ABC(0, 0, 0), "transition1", ABC(1, 0, 0)),
            ABC(1, 0, 0), "transition2", ABC(1, 1, 0)),
            ABC(1, 1, 0), "transition3", ABC(0, 1, 0))

\* the same graph with a fourth edge that closes a cycle and a second edge
\* out of the first node
RingGraph ==
    graph_add_edge(graph_add_edge(graph_add_node(TestGraph, ABC(0, 1, 0)),
        ABC(0, 1, 0), "transition4", ABC(0, 0, 0)),
        ABC(0, 0, 0), "transition5", ABC(0, 1, 0))

Graphs == {TestGraph, RingGraph}

(***************************************************************************)
(* ant_colony_optimization and its helpers.  The pheromone table is a      *)
(* dict from transition to weight: the model keeps it as a function        *)
(* (pheromone) and the order of its keys (keys), which is the order of     *)
(* the additions of the sum over the table.                                *)
(***************************************************************************)
\* alpha = 1.0 (the exponent of the pheromone weight)
alpha == 1

\* total_pheromone = 0.0; for transition, weight in pheromone.items():
\* total_pheromone += weight ** alpha  (over the first n keys of the table,
\* in the order of the table)
RECURSIVE total_of(_, _, _)
total_of(f, keys, n) ==
    IF n = 0
    THEN <<0, 1>>
    ELSE FloatAdd(total_of(f, keys, n - 1), FracPow(f[keys[n]], alpha))

\* the sequences that list every element of S once
RECURSIVE Listings(_)
Listings(S) ==
    IF S = {} THEN {<<>>}
    ELSE UNION {{<<x>> \o q : q \in Listings(S \ {x})} : x \in S}

\* the orders in which "for source in reachability_graph.nodes" can list the
\* nodes: nodes is a set of tuples of strings and numbers, and the order of
\* such a set changes with the interpreter's hash seed
NodeOrders(graph) == Listings(graph.nodes)

\* the orders a run of the model follows: one listing and the opposite one
\* (when the loop raises KeyError the table it has filled is lost, and no
\* order is followed)
FollowedOrders(graph) ==
    IF \E source \in graph.nodes : ~DictHas(graph.edges, source)
    THEN {<<>>}
    ELSE LET one == CHOOSE nodes \in NodeOrders(graph) : TRUE
         IN  {one, Reversed(one)}

\* pheromone[transition] = 1.0 for the transitions of edges[source]: a new
\* key is put at the end of the table
RECURSIVE table_add(_, _)
table_add(keys, transitions) ==
    IF transitions = <<>> THEN keys
    ELSE table_add(IF Head(transitions) \in Range(keys)
                   THEN keys ELSE Append(keys, Head(transitions)),
                   Tail(transitions))

\* the keys of the table after the loop over the first n nodes
RECURSIVE table_keys(_, _, _)
table_keys(graph, nodes, n) ==
    IF n = 0 THEN <<>>
    ELSE table_add(table_keys(graph, nodes, n - 1),
                   DictKeys(DictGet(graph.edges, nodes[n])))

\* initialize_pheromone with the nodes listed in the order nodes:
\* reachability_graph.edges[source] raises KeyError for a node that is no
\* key of the edge table; keys is the order of the keys of the table
initialize_pheromone(graph, nodes) ==
    IF \E source \in graph.nodes : ~DictHas(graph.edges, source)
    THEN [status |-> "raised", value |-> <<>>, keys |-> <<>>]
    ELSE [status |-> "returned",
          value |-> [t \in UNION {Range(DictKeys(DictGet(graph.edges, source))) :
                                     source \in graph.nodes} |-> <<1, 1>>],
          keys |-> table_keys(graph, nodes, Len(nodes))]

\* hamming_distance: the number of places of marking1 whose count differs
\* in marking2
hamming_distance(marking1, marking2) ==
    Cardinality({i \in 1..Len(marking1) :
                    marking1[i][2] # DictGet(marking2, marking1[i][1])})

\* calculate_transition_probabilities: the total runs over the whole table
\* (keys is the order of its keys), the probabilities over
\* enabled_transitions in their order; KeyError for an enabled transition
\* that is no key of the table
RECURSIVE probabilities_loop(_, _, _, _, _)
probabilities_loop(enabled, pheromone, total_pheromone, i, probabilities) ==
    IF i > Len(enabled)
    THEN [status |-> "returned", value |-> probabilities]
    ELSE IF enabled[i][1] \notin DOMAIN pheromone \/ total_pheromone[1] = 0
    THEN [status |-> "raised", value |-> <<>>]
    ELSE probabilities_loop(enabled, pheromone, total_pheromone, i + 1,
             Append(probabilities,
                    <<enabled[i][1],
                      FracDiv(FracPow(pheromone[enabled[i][1]], alpha),
                              total_pheromone)>>))

calculate_transition_probabilities(enabled, pheromone, keys) ==
    probabilities_loop(enabled, pheromone,
                       total_of(pheromone, keys, Len(keys)), 1, <<>>)

\* select_transition with random.random() = random_value: the first
\* transition at which the cumulative probability reaches random_value,
\* "None" when none does
RECURSIVE select_loop(_, _, _, _)
select_loop(probabilities, random_value, i, cumulative_probability) ==
    IF i > Len(probabilities)
    THEN "None"
    ELSE IF FracLe(random_value,
                   FracAdd(cumulative_probability, probabilities[i][2]))
    THEN probabilities[i][1]
    ELSE select_loop(probabilities, random_value, i + 1,
                     FracAdd(cumulative_probability, probabilities[i][2]))

select_transition(probabilities, random_value) ==
    select_loop(probabilities, random_value, 1, <<0, 1>>)

\* the cumulative probability after the first i entries
RECURSIVE Cumulative(_, _)
Cumulative(probabilities, i) ==
    IF i = 0 THEN <<0, 1>>
    ELSE FracAdd(Cumulative(probabilities, i - 1), probabilities[i][2])

\* values of random.random(), which lies in [0, 1): for every step of the
\* cumulative probability its upper end (a value inside the step when the
\* upper end is 1), and a value above the last step when the probabilities
\* sum to less than 1
RandomValues(probabilities) ==
    {IF FracLt(Cumulative(probabilities, i), <<1, 1>>)
     THEN Cumulative(probabilities, i)
     ELSE FracMul(<<1, 2>>, FracAdd(Cumulative(probabilities, i - 1),
                                    Cumulative(probabilities, i))) :
        i \in {j \in 1..Len(probabilities) : probabilities[j][2][1] > 0}}
    \cup (IF FracLt(Cumulative(probabilities, Len(probabilities)), <<1, 1>>)
          THEN {FracMul(<<1, 2>>, FracAdd(Cumulative(probabilities,
                                                     Len(probabilities)), <<1, 1>>))}
          ELSE {})

\* update_pheromone: every weight is multiplied by 1 - evaporation_rate,
\* then "for i in range(path_length - 1)" deposits 1 / path_length on
\* path[i] when it is a key of the table
RECURSIVE deposit_path(_, _, _)
deposit_path(pheromone, path, i) ==
    IF i > Len(path) - 1
    THEN pheromone
    ELSE deposit_path(IF path[i] \in DOMAIN pheromone
                      THEN [pheromone EXCEPT ![path[i]] =
                               FracAdd(@, Frac(1, Len(path)))]
                      ELSE pheromone,
                      path, i + 1)

RECURSIVE deposit_paths(_, _, _)
deposit_paths(pheromone, paths, k) ==
    IF k > Len(paths)
    THEN pheromone
    ELSE deposit_paths(deposit_path(pheromone, paths[k], 1), paths, k + 1)

update_pheromone(pheromone, paths, evaporation_rate) ==
    deposit_paths([t \in DOMAIN pheromone |->
                      FloatMul(pheromone[t],
                               FracAdd(<<1, 1>>, Frac(-evaporation_rate[1],
                                                      evaporation_rate[2])))],
                  paths, 1)

\* the parameters of a call of ant_colony_optimization
Budgets ==
    {b \in (1..MaxBudget) \X (1..MaxBudget) : b[1] * b[2] <= MaxBudget}

\* evaporation_rate: 0, 0.5 and 0.75
EvaporationRates == {<<0, 1>>, <<1, 2>>, <<3, 4>>}

\* the start marking of the test, for a graph made by hand; the net's
\* markings for a graph built from the net
AcoStarts ==
    IF pc = "done" THEN {petri_net.place_markings} ELSE {ABC(0, 0, 0)}

\* the desired marking of the test, the start marking itself and a marking
\* out of reach, for a graph made by hand
AcoDesired ==
    IF pc = "done"
    THEN {ZeroMarking(petri_net)}
    ELSE {ABC(1, 1, 0), ABC(0, 0, 0), ABC(0, 0, 1)}

\* the graph handed to ant_colony_optimization: the graph built from the
\* net, or a graph made by hand by a caller that built no net
AcoGraphs == IF pc = "done" THEN {reachability_graph} ELSE Graphs

\* ant = Ant(start_marking)
Ant(start_marking) == [current_marking |-> start_marking, path |-> <<>>]

\* Ant.update_current_marking: dict(marking) of a tuple of items
RECURSIVE dict_of(_, _)
dict_of(items, d) ==
    IF items = <<>> THEN d
    ELSE dict_of(Tail(items), DictSet(d, Head(items)[1], Head(items)[2]))

\* (variant of the bookkeeping: the path of a rollout that did not reach
\* desired is not handed to update_pheromone, an empty path takes its place)
record_reached_only(a) ==
    LET ant == a.ant
        kept == IF DictEq(ant.current_marking, a.desired) THEN ant.path ELSE <<>>
    IN  [a EXCEPT !.paths = Append(@, kept),
                  !.rollouts = Append(@, ant),
                  !.best_path_none = FALSE,
                  !.best_path = IF a.best_path_none THEN ant.path ELSE @,
                  !.best_path_length = IF a.best_path_none THEN Len(ant.path) ELSE @,
                  !.best_marking = IF a.best_path_none THEN ant.current_marking ELSE @]

\* lines 303-314: the path of the ant is appended to paths and compared
\* with the best so far ("not best_path" holds for None and for [])
record_rollout(a) ==
    LET ant == a.ant
        first == [a EXCEPT
                     !.paths = Append(@, ant.path),
                     !.rollouts = Append(@, ant),
                     !.best_path_none =
                         IF a.best_path_none \/ a.best_path = <<>> THEN FALSE ELSE @,
                     !.best_path =
                         IF a.best_path_none \/ a.best_path = <<>> THEN ant.path ELSE @,
                     !.best_path_length =
                         IF a.best_path_none \/ a.best_path = <<>>
                         THEN Len(ant.path) ELSE @,
                     !.best_marking =
                         IF a.best_path_none \/ a.best_path = <<>>
                         THEN ant.current_marking ELSE @]
    IN  IF \/ hamming_distance(ant.current_marking, a.desired)
                  < hamming_distance(first.best_marking, a.desired)
           \/ (ant.path # <<>> /\ Len(ant.path) < first.best_path_length)
        THEN [first EXCEPT !.best_path = ant.path,
                           !.best_path_length = Len(ant.path),
                           !.best_marking = ant.current_marking]
        ELSE first

\* ant_colony_optimization is called: lines 291-293 and the first Ant
AntColony ==
    /\ pc = "done" \/ (pc = "idle" /\ petri_net = EmptyNet)
    /\ \E graph \in AcoGraphs,
          start_marking \in AcoStarts, desired_marking \in AcoDesired,
          budget \in Budgets, evaporation_rate \in EvaporationRates :
       \E nodes \in FollowedOrders(graph) :
       \E initial \in {initialize_pheromone(graph, nodes)} :
           /\ aco' = [graph |-> graph,
                      start |-> start_marking,
                      desired |-> desired_marking,
                      num_ants |-> budget[1],
                      num_iterations |-> budget[2],
                      evaporation_rate |-> evaporation_rate,
                      pheromone |-> initial.value,
                      keys |-> initial.keys,
                      best_path_none |-> TRUE,
                      best_path |-> <<>>,
                      best_path_length |-> 0,
                      best_marking |-> <<>>,
                      iteration |-> 0,
                      paths |-> <<>>,
                      ant |-> Ant(start_marking),
                      probabilities |-> <<>>,
                      random_value |-> <<0, 1>>,
                      selected |-> "",
                      rollouts |-> <<>>,
                      round_pheromone |-> <<>>,
                      round_paths |-> <<>>,
                      raised_in |-> IF initial.status = "raised"
                                    THEN "initialize_pheromone" ELSE ""]
           /\ pc' = IF initial.status = "raised" THEN "aco_raised" ELSE "rollout"
    /\ UNCHANGED <<petri_net, call, builder, paths_call, search, previous_graph>>

\* (variant: the while loop of construct_path never finds desired)
NeverAtDesired(current_marking, desired_marking) == FALSE

\* while ant.current_marking != desired_marking  (a comparison of two
\* dicts): the loop ends when the two are equal
AtDesired(current_marking, desired_marking) ==
    DictEq(current_marking, desired_marking)

\* construct_path: the test of the while loop and one pass of its body
\* the ant's dict, which is the caller's start_marking until the first step,
\* changed in place instead of replaced
update_in_place(run, marking) ==
    [run EXCEPT !.ant.current_marking = dict_of(marking, <<>>),
                !.start = dict_of(marking, <<>>)]

\* Ant.update_current_marking: self.current_marking = dict(marking) binds a
\* new dict and leaves the one it held (the start marking) as it was
update_current_marking(run, marking) ==
    [run EXCEPT !.ant.current_marking = dict_of(marking, <<>>)]

ConstructPath ==
    /\ pc = "rollout"
    /\ IF AtDesired(aco.ant.current_marking, aco.desired)
       THEN /\ pc' = "rolled"
            /\ aco' = aco
       ELSE IF ~DictHas(aco.graph.edges, aco.ant.current_marking)
       THEN /\ pc' = "aco_raised"
            /\ aco' = [aco EXCEPT !.raised_in = "construct_path"]
       ELSE \E calculated \in {calculate_transition_probabilities(
                                   DictGet(aco.graph.edges,
                                           aco.ant.current_marking),
                                   aco.pheromone, aco.keys)} :
              IF calculated.status = "raised"
              THEN /\ pc' = "aco_raised"
                   /\ aco' = [aco EXCEPT !.raised_in = "construct_path"]
              ELSE \E random_value \in RandomValues(calculated.value) :
                   \E transition \in {select_transition(calculated.value,
                                                        random_value)} :
                      IF transition = "None"
                      THEN /\ pc' = "rolled"
                           /\ aco' = [aco EXCEPT
                                         !.probabilities = calculated.value,
                                         !.random_value = random_value,
                                         !.selected = transition]
                      ELSE /\ Len(aco.ant.path) < MaxPathLen
                           /\ pc' = pc
                           /\ aco' = update_current_marking(
                                         [aco EXCEPT
                                             !.probabilities = calculated.value,
                                             !.random_value = random_value,
                                             !.selected = transition,
                                             !.ant.path = Append(@, transition)],
                                         DictGet(DictGet(aco.graph.edges,
                                                         aco.ant.current_marking),
                                                 transition))
    /\ UNCHANGED <<petri_net, call, builder, paths_call, search, previous_graph>>

\* lines 303-314 after construct_path returned; then the next ant, or the
\* end of the round
RecordRollout ==
    /\ pc = "rolled"
    /\ \E recorded \in {record_rollout(aco)} :
           IF Len(recorded.paths) < aco.num_ants
           THEN /\ pc' = "rollout"
                /\ aco' = [recorded EXCEPT !.ant = Ant(aco.start)]
           ELSE /\ pc' = "update"
                /\ aco' = recorded
    /\ UNCHANGED <<petri_net, call, builder, paths_call, search, previous_graph>>

\* line 317 at the end of a round; then the next round, or the return
UpdatePheromone ==
    /\ pc = "update"
    /\ aco' = [aco EXCEPT
                  !.pheromone = update_pheromone(aco.pheromone, aco.paths,
                                                 aco.evaporation_rate),
                  !.round_pheromone = aco.pheromone,
                  !.round_paths = aco.paths,
                  !.iteration = @ + 1,
                  !.paths = <<>>,
                  !.ant = Ant(aco.start)]
    /\ pc' = IF aco.iteration + 1 < aco.num_iterations THEN "rollout" ELSE "returning"
    /\ UNCHANGED <<petri_net, call, builder, paths_call, search, previous_graph>>

\* return best_path
AntColonyReturn ==
    /\ pc = "returning"
    /\ pc' = "aco_returned"
    /\ UNCHANGED <<petri_net, call, builder, paths_call, search, previous_graph, aco>>

Next ==
    \/ ExecuteTransition
    \/ EnabledEdges
    \/ StartBuild
    \/ BuildAgain
    \/ BuildPop
    \/ BuildExpand
    \/ BuildReturn
    \/ FindPaths
    \/ Backtrack
    \/ FindPathsReturn
    \/ AntColony
    \/ ConstructPath
    \/ RecordRollout
    \/ UpdatePheromone
    \/ AntColonyReturn

Spec == Init /\ [][Next]_vars

\* the builder is sequential code that runs on: a step of its loops that
\* can be taken is taken
FairSpec ==
    Spec /\ WF_vars(BuildPop) /\ WF_vars(BuildExpand) /\ WF_vars(BuildReturn)

\* find_paths is sequential code that runs on as well
SearchFairSpec == Spec /\ WF_vars(Backtrack) /\ WF_vars(FindPathsReturn)

\* ant_colony_optimization is sequential code too: its loops run on
AcoFairSpec ==
    Spec /\ WF_vars(ConstructPath) /\ WF_vars(RecordRollout)
         /\ WF_vars(UpdatePheromone) /\ WF_vars(AntColonyReturn)

(***************************************************************************)
(* The net as the specification describes it: the input places of a        *)
(* transition, the weights of its edges, and the enabling rule.            *)
(***************************************************************************)
Tok(m, place) == DictGet(m, place)

InputPlaces(net, t) ==
    {p \in net.places : DictHas(net.edges, p) /\ DictHas(DictGet(net.edges, p), t)}

OutputPlaces(net, t) ==
    IF DictHas(net.edges, t) THEN Range(DictKeys(DictGet(net.edges, t))) ELSE {}

Weight(net, node1, node2) == DictGet(DictGet(net.edges, node1), node2)

\* every input place of t holds at least the weight of its input edge
RuleEnabled(net, t, m) ==
    \A p \in InputPlaces(net, t) : Tok(m, p) >= Weight(net, p, t)

Fired == /\ call.op = "execute_transition"
         /\ call.result.status = "returned"
         /\ RuleEnabled(petri_net, call.transition, call.marking)

(***************************************************************************)
(* C1: firing is all-or-nothing: when some input place of t holds fewer    *)
(* tokens than the weight of its input edge, execute_transition(t, m)      *)
(* returns a marking with the count of m in every place.                   *)
(***************************************************************************)
C1_BlockedFiringReturnsInput ==
    (call.op = "execute_transition"
       /\ ~RuleEnabled(petri_net, call.transition, call.marking))
    => /\ call.result.status = "returned"
       /\ \A p \in petri_net.places :
              Tok(call.result.value, p) = Tok(call.marking, p)

\* a transition with two input places, one with enough tokens and one with
\* too few, was handed to execute_transition
C1_Witness ==
    /\ call.op = "execute_transition"
    /\ call.result.status = "returned"
    /\ \E p, q \in InputPlaces(petri_net, call.transition) :
          /\ Tok(call.marking, p) >= Weight(petri_net, p, call.transition)
          /\ Tok(call.marking, q) < Weight(petri_net, q, call.transition)

(***************************************************************************)
(* C2: token counts never go negative: with positive edge weights and a    *)
(* marking whose counts are all >= 0, every place of the marking that      *)
(* execute_transition returns has a count >= 0; and every marking the      *)
(* builder records as a node has a count >= 0 in every place.              *)
(***************************************************************************)
C2_TokenCountsNeverNegative ==
    /\ (call.op = "execute_transition" /\ call.result.status = "returned")
       => \A p \in petri_net.places : Tok(call.result.value, p) >= 0
    /\ \A node \in reachability_graph.nodes :
           \A i \in 1..Len(node) : node[i][2] >= 0

\* the builder recorded a node in which a place that held tokens in the
\* initial marking is empty
C2_Witness ==
    /\ pc = "done"
    /\ \E node \in reachability_graph.nodes :
          \E i \in 1..Len(node) :
              node[i][2] = 0 /\ petri_net.place_markings[i][2] > 0

(***************************************************************************)
(* C3: when t is enabled at m, execute_transition subtracts from each      *)
(* input place the weight of its input edge once and adds the weight of    *)
(* the output edge to the output place once, for one, two or more input    *)
(* places; every other place keeps its count.                              *)
(***************************************************************************)
C3_FiringMovesEachWeightOnce ==
    (Fired /\ InputPlaces(petri_net, call.transition) # {}
           /\ OutputPlaces(petri_net, call.transition) # {})
    => \A p \in petri_net.places :
          Tok(call.result.value, p) =
              Tok(call.marking, p)
              - (IF p \in InputPlaces(petri_net, call.transition)
                 THEN Weight(petri_net, p, call.transition) ELSE 0)
              + (IF p \in OutputPlaces(petri_net, call.transition)
                 THEN Weight(petri_net, call.transition, p) ELSE 0)

(***************************************************************************)
(* C4: enabled_edges(m) returns exactly the transitions t such that every  *)
(* input place of t holds at least the weight of its input edge in m; a    *)
(* transition with two input places of which only one holds enough tokens  *)
(* is not returned.                                                        *)
(***************************************************************************)
C4_EnabledEdgesIsEnablingRule ==
    call.op = "enabled_edges"
    => Range(call.result) =
          {t \in petri_net.transitions : RuleEnabled(petri_net, t, call.marking)}

(***************************************************************************)
(* C5: firing is total: for every transition declared in the net, also one *)
(* with input edges and no output edge yet, and every marking that gives   *)
(* a count to every place, execute_transition returns a marking and never  *)
(* raises.                                                                 *)
(***************************************************************************)
C5_FiringNeverRaises ==
    call.op = "execute_transition" => call.result.status = "returned"

(***************************************************************************)
(* C6: execute_transition never changes the marking it is given: after the *)
(* call the caller's marking has the count in every place it had before,   *)
(* fired or blocked, and when the transition fired the returned marking is *)
(* another object than the caller's.                                       *)
(***************************************************************************)
C6_FiringLeavesArgumentAlone ==
    call.op = "execute_transition"
    => /\ call.result.arg_after = call.marking
       /\ Fired => ~call.result.alias

\* a transition fired and the marking it returned differs from the input
C6_Witness ==
    /\ Fired
    /\ ~call.result.alias
    /\ call.result.value # call.marking
    /\ call.result.arg_after = call.marking


(***************************************************************************)
(* The markings reachable from the initial marking by firing transitions   *)
(* that the enabling rule enables, a firing being what execute_transition  *)
(* returns.                                                                *)
(***************************************************************************)
RuleSuccessors(net, m) ==
    {execute_transition(net, t, m).value :
        t \in {u \in net.transitions :
                  /\ RuleEnabled(net, u, m)
                  /\ execute_transition(net, u, m).status = "returned"}}

RECURSIVE ReachableFrom(_, _)
ReachableFrom(net, S) ==
    LET more == S \cup UNION {RuleSuccessors(net, m) : m \in S}
    IN  IF more = S THEN S ELSE ReachableFrom(net, more)

\* every transition has at least one input place and exactly one output edge
OneOutputSomeInput(net) ==
    \A t \in net.transitions :
        /\ InputPlaces(net, t) # {}
        /\ Cardinality(OutputPlaces(net, t)) = 1

(***************************************************************************)
(* C7: for a net with a finite set of reachable markings whose transitions *)
(* each have at least one input place and exactly one output edge, the     *)
(* node set of the returned graph is exactly the set of markings reachable *)
(* from the initial marking; the chain P1->T1->P2->T2->P3 with one token   *)
(* in P1 gives 3 nodes and 2 source markings with outgoing edges.          *)
(***************************************************************************)
C7_NodesAreTheReachableMarkings ==
    (pc = "done" /\ OneOutputSomeInput(petri_net))
    => /\ reachability_graph.nodes =
              ReachableFrom(petri_net, {petri_net.place_markings})
       /\ petri_net = ChainNet(1, 0, 0)
          => /\ Cardinality(reachability_graph.nodes) = 3
             /\ Len(reachability_graph.edges) = 2

\* the builder returned the graph of the chain with one token in P1: a
\* marking two firings away from the initial one is a node
C7_Witness ==
    /\ pc = "done"
    /\ petri_net = ChainNet(1, 0, 0)
    /\ <<<<"P1", 0>>, <<"P2", 0>>, <<"P3", 1>>>> \in reachability_graph.nodes

\* the edges (m, t, m2) of the graph
GraphEdges(graph) ==
    UNION {{<<graph.edges[i][1], graph.edges[i][2][j][1], graph.edges[i][2][j][2]>> :
               j \in 1..Len(graph.edges[i][2])} : i \in 1..Len(graph.edges)}

(***************************************************************************)
(* C8: every edge (m, t, m2) the builder records is a real firing: t is    *)
(* enabled at m under the enabling rule, m2 is execute_transition(t, m)    *)
(* and m2 differs from m; and when the builder returns, for every visited  *)
(* marking m and every transition t enabled at m whose firing changes m,   *)
(* the edge (m, t, execute_transition(t, m)) is recorded.                  *)
(***************************************************************************)
C8_EdgesAreTheRealFirings ==
    /\ \A e \in GraphEdges(reachability_graph) :
          /\ e[2] \in petri_net.transitions
          /\ RuleEnabled(petri_net, e[2], e[1])
          /\ execute_transition(petri_net, e[2], e[1]).status = "returned"
          /\ e[3] = execute_transition(petri_net, e[2], e[1]).value
          /\ e[3] # e[1]
    /\ pc = "done"
       => \A m \in visited_markings, t \in petri_net.transitions :
             (/\ RuleEnabled(petri_net, t, m)
              /\ execute_transition(petri_net, t, m).status = "returned"
              /\ execute_transition(petri_net, t, m).value # m)
             => <<m, t, execute_transition(petri_net, t, m).value>>
                    \in GraphEdges(reachability_graph)

\* the builder returned a graph with an edge, and at a visited marking
\* enabled_edges listed a transition that the enabling rule does not enable
C8_Witness ==
    /\ pc = "done"
    /\ reachability_graph.edges # <<>>
    /\ \E m \in visited_markings :
          \E t \in Range(enabled_edges(petri_net, m)) :
              ~RuleEnabled(petri_net, t, m)

(***************************************************************************)
(* C9: when the set of markings reachable from the initial marking is      *)
(* finite (as it is for every net of the model), the worklist of           *)
(* construct_reachability_graph eventually becomes empty and the builder   *)
(* returns.                                                                *)
(***************************************************************************)
C9_BuilderReturns == (pc \in {"building", "expanding"}) ~> (pc = "done")

\* every transition of the net has an output edge
EveryTransitionHasOutput(net) ==
    \A t \in net.transitions : OutputPlaces(net, t) # {}

\* (what holds: the builder returns for the nets in which every transition
\* has an output edge, whether the graph has cycles or not)
BuilderReturnsWhenEveryTransitionHasOutput ==
    (pc \in {"building", "expanding"} /\ EveryTransitionHasOutput(petri_net))
        ~> (pc = "done")

(***************************************************************************)
(* The simple paths of the graph, markings being identified by their       *)
(* content (the count of every place) whatever the order of their items.   *)
(***************************************************************************)
Content(m) == [p \in {m[i][1] : i \in 1..Len(m)} |-> DictGet(m, p)]

ContentEdges(graph) ==
    {<<Content(e[1]), e[2], Content(e[3])>> : e \in GraphEdges(graph)}

\* the transition sequences of the simple paths from m to desired that do
\* not reach desired before their end; seen holds the markings on the path
RECURSIVE SimplePaths(_, _, _, _)
SimplePaths(E, m, desired, seen) ==
    IF m = desired
    THEN {<<>>}
    ELSE UNION {{<<e[2]>> \o q : q \in SimplePaths(E, e[3], desired, seen \cup {e[3]})} :
                   e \in {f \in E : f[1] = m /\ f[3] \notin seen}}

Occurrences(list, x) == Cardinality({i \in 1..Len(list) : list[i] = x})

SearchedPathsComplete ==
    \A q \in SimplePaths(ContentEdges(reachability_graph),
                         Content(paths_call.start), Content(paths_call.desired),
                         {Content(paths_call.start)}) :
        Occurrences(paths_call.result, q) = 1

(***************************************************************************)
(* C10: find_paths is complete: for every graph, start and desired         *)
(* marking, every transition sequence that labels a simple path in the     *)
(* graph from start to desired and does not reach desired before its end   *)
(* appears exactly once in the returned list; for the chain                *)
(* P1->T1->P2->T2->P3 the result is [[T1, T2]], and for the chain with the *)
(* branch P2->T5->P5 both [T1,T2,T3,T4] and [T1,T5] are returned.          *)
(***************************************************************************)
C10_FindPathsComplete == pc = "searched" => SearchedPathsComplete

\* (what holds: find_paths is complete when the start marking lists its
\* places in the order of the graph's nodes)
FindPathsCompleteFromNodes ==
    (pc = "searched" /\ paths_call.start \in reachability_graph.nodes)
    => /\ SearchedPathsComplete
       /\ (/\ petri_net = ChainNet(1, 0, 0)
           /\ paths_call.start = petri_net.place_markings
           /\ paths_call.desired = <<<<"P1", 0>>, <<"P2", 0>>, <<"P3", 1>>>>)
          => paths_call.result = <<<<"T1", "T2">>>>
       /\ (/\ petri_net = BranchNet(1)
           /\ paths_call.start = petri_net.place_markings
           /\ DictGet(paths_call.desired, "P5") = 1)
          => paths_call.result = <<<<"T1", "T2", "T3", "T4">>, <<"T1", "T5">>>>

(***************************************************************************)
(* The markings met when a transition sequence is followed edge by edge    *)
(* from m, as far as the graph has the edges.                              *)
(***************************************************************************)
RECURSIVE Trail(_, _, _)
Trail(E, m, q) ==
    LET out == {e \in E : e[1] = m /\ e[2] = Head(q)}
    IN  IF q = <<>> \/ out = {}
        THEN <<m>>
        ELSE <<m>> \o Trail(E, (CHOOSE e \in out : TRUE)[3], Tail(q))

\* the trail of the i-th path that find_paths returned
ResultTrail(i) ==
    Trail(ContentEdges(reachability_graph), Content(paths_call.start),
          paths_call.result[i])

\* some edge of the graph leads back to the start marking of the search
CycleThroughStart ==
    \E e \in GraphEdges(reachability_graph) : e[3] = paths_call.start

(***************************************************************************)
(* C11: find_paths is sound: every returned transition sequence, followed  *)
(* edge by edge from the start marking, exists in the graph, ends at a     *)
(* marking equal to desired and meets no marking equal to desired before   *)
(* its end; when start equals desired the result is one empty path.        *)
(***************************************************************************)
C11_FindPathsSound ==
    pc = "searched"
    => /\ \A i \in 1..Len(paths_call.result) :
              /\ Len(ResultTrail(i)) = Len(paths_call.result[i]) + 1
              /\ ResultTrail(i)[Len(ResultTrail(i))] = Content(paths_call.desired)
              /\ \A j \in 1..(Len(ResultTrail(i)) - 1) :
                     ResultTrail(i)[j] # Content(paths_call.desired)
       /\ Content(paths_call.start) = Content(paths_call.desired)
          => paths_call.result = << <<>> >>

\* find_paths returned a path of two or more transitions
C11_Witness ==
    /\ pc = "searched"
    /\ \E i \in 1..Len(paths_call.result) : Len(paths_call.result[i]) >= 2

(***************************************************************************)
(* C12: no returned path visits a marking twice: the markings start, m1,   *)
(* ..., mk met along a returned path are pairwise different, except        *)
(* possibly the first and the last.                                        *)
(***************************************************************************)
C12_NoMarkingTwiceOnAPath ==
    pc = "searched"
    => \A i \in 1..Len(paths_call.result) :
           \A j, k \in 1..Len(ResultTrail(i)) :
               (j < k /\ ResultTrail(i)[j] = ResultTrail(i)[k])
               => (j = 1 /\ k = Len(ResultTrail(i)))

\* find_paths returned a path of two or more transitions from a start
\* marking that lies on a cycle of the graph
C12_Witness ==
    /\ pc = "searched"
    /\ CycleThroughStart
    /\ \E i \in 1..Len(paths_call.result) : Len(paths_call.result[i]) >= 2

(***************************************************************************)
(* C13: find_paths terminates on every finite graph, with cycles or with   *)
(* desired out of reach, and returns the empty list when no simple path    *)
(* leads from start to desired.                                            *)
(***************************************************************************)
C13_FindPathsTerminates ==
    /\ (pc = "searching") ~> (pc = "searched")
    /\ [](pc = "searched"
          => (SimplePaths(ContentEdges(reachability_graph),
                          Content(paths_call.start), Content(paths_call.desired),
                          {Content(paths_call.start)}) = {}
              => paths_call.result = <<>>))

\* find_paths returned the empty list for a start marking on a cycle and a
\* desired marking that is no node of the graph
C13_Witness ==
    /\ pc = "searched"
    /\ CycleThroughStart
    /\ paths_call.desired \notin reachability_graph.nodes
    /\ paths_call.result = <<>>

(***************************************************************************)
(* The paths of a depth-first search that tries, at each marking, the      *)
(* outgoing transitions in the order given by the sequence order.          *)
(***************************************************************************)
RECURSIVE PathsInOrder(_, _, _, _, _)
RECURSIVE TryInOrder(_, _, _, _, _, _)
PathsInOrder(E, m, desired, seen, order) ==
    IF m = desired THEN << <<>> >> ELSE TryInOrder(E, m, desired, seen, order, 1)

TryInOrder(E, m, desired, seen, order, i) ==
    IF i > Len(order)
    THEN <<>>
    ELSE LET out == {e \in E : e[1] = m /\ e[2] = order[i] /\ e[3] \notin seen}
             below == IF out = {} THEN <<>>
                      ELSE LET m2 == (CHOOSE e \in out : TRUE)[3]
                               sub == PathsInOrder(E, m2, desired, seen \cup {m2}, order)
                           IN  [k \in 1..Len(sub) |-> <<order[i]>> \o sub[k]]
         IN  below \o TryInOrder(E, m, desired, seen, order, i + 1)

(***************************************************************************)
(* C14: the paths find_paths returns are in depth-first order, the         *)
(* outgoing transitions of each marking being tried in the order in which  *)
(* the transitions were declared in the net, whatever the order in which   *)
(* the places and the edges were added; from {int: 2} to {int: 1} the      *)
(* result is [Multiplication], [Addition], [Subtraction].                  *)
(***************************************************************************)
C14_PathsInDeclarationOrder ==
    (pc = "searched" /\ paths_call.start \in reachability_graph.nodes)
    => /\ paths_call.result =
              PathsInOrder(ContentEdges(reachability_graph),
                           Content(paths_call.start), Content(paths_call.desired),
                           {Content(paths_call.start)}, petri_net.declared)
       /\ (/\ petri_net = IntNet(2, 0)
           /\ paths_call.start = petri_net.place_markings
           /\ paths_call.desired = <<<<"int", 1>>, <<"str", 0>>, <<"bool", 0>>>>)
          => paths_call.result =
                 <<<<"Multiplication">>, <<"Addition">>, <<"Subtraction">>>>

\* the transitions in the order of enabled_edges: place by place in the
\* order the places were added, the edges of a place in the order they
\* were added
RECURSIVE EdgeTableOrder(_, _, _)
EdgeTableOrder(net, i, listed) ==
    IF i > Len(net.place_markings)
    THEN listed
    ELSE LET place == net.place_markings[i][1]
             more == IF DictHas(net.edges, place)
                     THEN SelectSeq(DictKeys(DictGet(net.edges, place)),
                                    LAMBDA t : t \notin Range(listed))
                     ELSE <<>>
         IN  EdgeTableOrder(net, i + 1, listed \o more)

\* (what holds: the outgoing transitions of a marking are tried in the
\* order in which the places and their edges were added to the net)
PathsInEdgeTableOrder ==
    (pc = "searched" /\ paths_call.start \in reachability_graph.nodes)
    => paths_call.result =
           PathsInOrder(ContentEdges(reachability_graph),
                        Content(paths_call.start), Content(paths_call.desired),
                        {Content(paths_call.start)},
                        EdgeTableOrder(petri_net, 1, <<>>))

(***************************************************************************)
(* C15: markings are identified by their content: a start marking that     *)
(* gives every place the count of a node of the graph, its places listed   *)
(* in any order, is that node's edge-table key, so find_paths finds the    *)
(* outgoing edges and the paths it finds from the node itself.             *)
(***************************************************************************)
C15_MarkingsIdentifiedByContent ==
    pc = "searched"
    => \A node \in reachability_graph.nodes :
           Content(node) = Content(paths_call.start)
           => /\ edges_get(reachability_graph, paths_call.start) =
                     edges_get(reachability_graph, node)
              /\ paths_call.result =
                     find_paths(reachability_graph, node, paths_call.desired)

(***************************************************************************)
(* C16: graph construction is idempotent and deterministic: a second call  *)
(* of construct_reachability_graph on the same net returns a graph with    *)
(* the node set and the (marking, transition, successor) edge set of the   *)
(* first.                                                                  *)
(***************************************************************************)
C16_SecondBuildSameGraph ==
    (pc = "done" /\ previous_graph # <<>>)
    => /\ reachability_graph.nodes = previous_graph.nodes
       /\ GraphEdges(reachability_graph) = GraphEdges(previous_graph)

\* the second call returned, and the graph has edges
C16_Witness ==
    /\ pc = "done"
    /\ previous_graph # <<>>
    /\ GraphEdges(previous_graph) # {}

(***************************************************************************)
(* The ant-colony search in the words of the specification.                *)
(***************************************************************************)
\* ant_colony_optimization was called and initialize_pheromone returned
AcoRunning ==
    \/ pc \in {"rollout", "rolled", "update", "returning", "aco_returned"}
    \/ pc = "aco_raised" /\ aco.raised_in = "construct_path"

\* the distance of a rollout's final marking to the desired marking
FinalDistance(rollout) == hamming_distance(rollout.current_marking, aco.desired)

\* the current marking of the ant has no outgoing transition in the graph
AtDeadEnd == ~DictHas(aco.graph.edges, aco.ant.current_marking)

\* the number of occurrences of t in path, divided by the length of path
DepositOf(t, path) ==
    IF path = <<>> THEN <<0, 1>>
    ELSE Frac(Cardinality({i \in 1..Len(path) : path[i] = t}), Len(path))

RECURSIVE DepositsOf(_, _, _)
DepositsOf(t, paths, k) ==
    IF k > Len(paths) THEN <<0, 1>>
    ELSE FracAdd(DepositOf(t, paths[k]), DepositsOf(t, paths, k + 1))

(***************************************************************************)
(* C17: the path ant_colony_optimization returns is the best of all        *)
(* rollouts of the run: no rollout ended nearer to desired (Hamming        *)
(* distance of the final marking), and no rollout that ended as near is    *)
(* shorter; a shorter rollout that ended farther away never replaces the   *)
(* best.                                                                   *)
(***************************************************************************)
C17_ReturnsBestRollout ==
    pc = "aco_returned"
    => \A k \in 1..Len(aco.rollouts) :
           /\ hamming_distance(aco.best_marking, aco.desired)
                  <= FinalDistance(aco.rollouts[k])
           /\ hamming_distance(aco.best_marking, aco.desired)
                  = FinalDistance(aco.rollouts[k])
              => aco.best_path_length <= Len(aco.rollouts[k].path)

(***************************************************************************)
(* C18: in every step of a rollout at a marking that differs from desired  *)
(* and has an outgoing transition, the selection probabilities sum to 1    *)
(* and a transition is selected, so a rollout stops only at desired or at  *)
(* a marking with no outgoing transition.                                  *)
(***************************************************************************)
C18_ProbabilitiesOverOutgoing ==
    /\ (AcoRunning /\ aco.probabilities # <<>>)
       => /\ Cumulative(aco.probabilities, Len(aco.probabilities)) = <<1, 1>>
          /\ aco.selected # "None"
    /\ pc = "rolled"
       => (DictEq(aco.ant.current_marking, aco.desired) \/ AtDeadEnd)

(***************************************************************************)
(* C19: after the pheromone update of a round the weight of every          *)
(* transition t is (1 - rho) times its weight before, plus, for every      *)
(* path p of the round, (occurrences of t in p) / len(p): the last         *)
(* transition of a path and the only transition of a one-step path         *)
(* receive their deposit too.                                              *)
(***************************************************************************)
C19_DepositOnEveryTransitionOfAPath ==
    (AcoRunning /\ aco.iteration >= 1)
    => \A t \in DOMAIN aco.pheromone :
           aco.pheromone[t] =
               FracAdd(FracMul(aco.round_pheromone[t],
                               FracAdd(<<1, 1>>, Frac(-aco.evaporation_rate[1],
                                                      aco.evaporation_rate[2]))),
                       DepositsOf(t, aco.round_paths, 1))

(***************************************************************************)
(* C20: a rollout that stands at a marking with no outgoing transition     *)
(* that is not the desired one halts with its path so far; no error is     *)
(* raised and ant_colony_optimization goes on.                             *)
(***************************************************************************)
C20_DeadEndHaltsRollout ==
    [][(pc = "rollout" /\ AtDeadEnd
          /\ ~DictEq(aco.ant.current_marking, aco.desired))
       => (pc' = "rolled" /\ aco'.ant = aco.ant)]_vars

(***************************************************************************)
(* C21: ant_colony_optimization terminates on every finite graph, cyclic   *)
(* graphs and graphs in which desired is out of reach included: a call     *)
(* that has started its rollouts returns, and when it returns it has run   *)
(* exactly num_iterations x num_ants rollouts.                             *)
(***************************************************************************)
C21_AcoTerminates ==
    /\ [](pc = "aco_returned"
            => Len(aco.rollouts) = aco.num_iterations * aco.num_ants)
    /\ (pc = "rollout" ~> pc = "aco_returned")

(***************************************************************************)
(* Rollouts: the ants of the finished rollouts and the ant under way.      *)
(***************************************************************************)
\* the marking reached from marking by following path along the edges of
\* graph; <<>> when an edge is missing
RECURSIVE Follow(_, _, _)
Follow(graph, marking, path) ==
    IF path = <<>> THEN marking
    ELSE IF /\ DictHas(graph.edges, marking)
            /\ DictHas(DictGet(graph.edges, marking), Head(path))
    THEN Follow(graph, DictGet(DictGet(graph.edges, marking), Head(path)),
                Tail(path))
    ELSE <<>>

Ants ==
    IF aco = <<>> THEN {}
    ELSE Range(aco.rollouts)
         \cup (IF pc \in {"rollout", "rolled"} THEN {aco.ant} ELSE {})

(***************************************************************************)
(* C22: a rollout stops as soon as its marking equals desired: the         *)
(* marking of an ant is the marking reached by following its path from     *)
(* start along the edges of the graph, no marking before the end of the    *)
(* path equals desired, and the path is empty when start equals desired.   *)
(***************************************************************************)
C22_RolloutStopsAtDesired ==
    \A ant \in Ants :
        /\ ant.current_marking = Follow(aco.graph, aco.start, ant.path)
        /\ \A i \in 0..(Len(ant.path) - 1) :
               ~DictEq(Follow(aco.graph, aco.start, SubSeq(ant.path, 1, i)),
                       aco.desired)
        /\ DictEq(aco.start, aco.desired) => ant.path = <<>>

\* a finished rollout that took two steps and stopped at desired, which is
\* not the end of the graph
C22_Witness ==
    /\ aco # <<>>
    /\ \E ant \in Range(aco.rollouts) :
           /\ Len(ant.path) = 2
           /\ DictEq(ant.current_marking, aco.desired)
           /\ DictHas(aco.graph.edges, ant.current_marking)

(***************************************************************************)
(* C23: the search is deterministic given its random draws: the transition *)
(* a step of a rollout selects is fixed by the graph, the pheromone        *)
(* weights and the draw, whatever the order in which the interpreter lists *)
(* the nodes of the graph; so two runs with the same inputs and the same   *)
(* draws make the same rollouts, tables and best path.                     *)
(***************************************************************************)
C23_SameDrawsSameSelection ==
    [][(pc = "rollout" /\ pc' # "aco_raised"
          /\ ~AtDesired(aco.ant.current_marking, aco.desired))
       => \A nodes \in NodeOrders(aco.graph) :
              select_transition(
                  calculate_transition_probabilities(
                      DictGet(aco.graph.edges, aco.ant.current_marking),
                      aco.pheromone,
                      table_keys(aco.graph, nodes, Len(nodes))).value,
                  aco'.random_value) = aco'.selected]_vars

(***************************************************************************)
(* construct_petri and its signature inspection.                           *)
(*                                                                         *)
(* A function is modelled by what inspect.signature reads of it: its name  *)
(* (the identity of the function object, which is the transition), its     *)
(* parameters as <<name, annotation>> pairs and its return annotation; ""  *)
(* is a missing annotation.                                                *)
(***************************************************************************)
Function(name, params, returns) ==
    [name |-> name, params |-> params, returns |-> returns]

\* get_inputs: type name -> list of the names of the parameters of that
\* type, parameters without annotation skipped
RECURSIVE get_inputs_from(_, _, _)
get_inputs_from(params, i, inputs) ==
    IF i > Len(params) THEN inputs
    ELSE LET name == params[i][1]
             input_type == params[i][2]
         IN  IF input_type = ""
             THEN get_inputs_from(params, i + 1, inputs)
             ELSE IF DictHas(inputs, input_type)
             THEN get_inputs_from(params, i + 1,
                      DictSet(inputs, input_type,
                              Append(DictGet(inputs, input_type), name)))
             ELSE get_inputs_from(params, i + 1,
                      DictSet(inputs, input_type, <<name>>))

get_inputs(component) == get_inputs_from(component.params, 1, <<>>)

\* get_outputs: the name of the return annotation, "None" without one
get_outputs(component) ==
    IF component.returns # "" THEN component.returns ELSE "None"

\* construct_petri, lines 135-142: the parameters of the user-provided
\* signature grouped by type name
RECURSIVE signature_parameters(_, _, _)
signature_parameters(params, i, parameters) ==
    IF i > Len(params) THEN parameters
    ELSE LET param_name == params[i][1]
             param_type == params[i][2]
             known == IF DictHas(parameters, param_type)
                      THEN parameters ELSE DictSet(parameters, param_type, <<>>)
         IN  signature_parameters(params, i + 1,
                 DictSet(known, param_type,
                         Append(DictGet(known, param_type), param_name)))

\* construct_petri, lines 150-158: the loop over the input types of one
\* component, from the i-th on
RECURSIVE add_inputs(_, _, _, _, _)
add_inputs(net, parameters, component, inputs, i) ==
    IF i > Len(inputs) THEN net
    ELSE LET input_type == inputs[i][1]
             placed == add_place(net, input_type, 0)
             seeded ==
                 IF input_type \in net.places THEN net
                 ELSE IF DictHas(parameters, input_type)
                 THEN [placed EXCEPT !.place_markings =
                          DictSet(@, input_type,
                                  DictGet(@, input_type)
                                  + Len(DictGet(parameters, input_type)))]
                 ELSE placed
         IN  add_inputs(add_edge(seeded, input_type, component.name,
                                 Len(inputs[i][2])),
                        parameters, component, inputs, i + 1)

\* construct_petri, lines 144-163: the loop over the components, from the
\* i-th on
RECURSIVE add_components(_, _, _, _)
add_components(net, parameters, components, i) ==
    IF i > Len(components) THEN net
    ELSE LET component == components[i]
             inputs == get_inputs(component)
             output == get_outputs(component)
             wired  == add_inputs(add_transition(net, component.name),
                                  parameters, component, inputs, 1)
             placed == IF output \in wired.places THEN wired
                       ELSE add_place(wired, output, 0)
         IN  add_components(add_edge(placed, component.name, output, 1),
                            parameters, components, i + 1)

construct_petri(components, user_provided_signature) ==
    add_components(EmptyNet,
                   signature_parameters(user_provided_signature.params, 1, <<>>),
                   components, 1)

\* the components of the model: str -> int, int -> int, (int, int) -> int,
\* and one of a str and an unannotated parameter that returns nothing
Components ==
    {Function("toInt", <<<<"s", "str">>>>, "int"),
     Function("double", <<<<"n", "int">>>>, "int"),
     Function("add", <<<<"a", "int">>, <<"b", "int">>>>, "int"),
     Function("log", <<<<"msg", "str">>, <<"level", "">>>>, "")}

\* the lists that hold some of the components once each, in every order
ComponentLists ==
    UNION {Listings(chosen) : chosen \in SUBSET Components \ {{}}}

\* the user-provided signatures: up to MaxParams parameters x_1, x_2, ..
\* of the types int and str
ParamNames == [i \in 1..MaxParams |-> <<"x", i>>]

Signatures ==
    {Function("signature", [i \in DOMAIN types |-> <<ParamNames[i], types[i]>>], "")
        : types \in UNION {[1..n -> {"int", "str"}] : n \in 0..MaxParams}}

(***************************************************************************)
(* Second state machine: a caller builds a net.  It either calls           *)
(* construct_petri, which builds a net of its own, or makes up to MaxCalls *)
(* calls of add_place, add_transition and add_edge on the empty net or on  *)
(* the first net of test_execute_transition.  call records the last call,  *)
(* whether it raised and the net before it.                                *)
(***************************************************************************)
PlaceNames == {"P1", "P3"}

TransitionNames == {"T1", "T2"}

Weights == {1, 2}

BuilderCall(op, node1, node2, weight, raised, before, count) ==
    [op |-> op, node1 |-> node1, node2 |-> node2, weight |-> weight,
     raised |-> raised, before |-> before, count |-> count]

NetInit ==
    /\ petri_net \in {EmptyNet, OneInputNet(2, 1, 0)}
    /\ pc = "net"
    /\ call = BuilderCall("none", "", "", 0, FALSE, EmptyNet, 0)
    /\ worklist = <<>>
    /\ visited_markings = {}
    /\ visited_edges = {}
    /\ reachability_graph = EmptyGraph
    /\ current_markings = <<>>
    /\ enabled_transitions = <<>>
    /\ expansions = <<>>
    /\ paths_call = <<>>
    /\ search = <<>>
    /\ previous_graph = <<>>
    /\ aco = <<>>

AddPlace ==
    /\ pc = "net"
    /\ call.count < MaxCalls
    /\ \E place \in PlaceNames, markings \in Tokens :
          /\ petri_net' = add_place(petri_net, place, markings)
          /\ call' = BuilderCall("add_place", place, "", markings, FALSE,
                                 petri_net, call.count + 1)
    /\ UNCHANGED <<pc, builder, paths_call, search, previous_graph, aco>>

AddTransition ==
    /\ pc = "net"
    /\ call.count < MaxCalls
    /\ \E transition \in TransitionNames :
          /\ petri_net' = add_transition(petri_net, transition)
          /\ call' = BuilderCall("add_transition", transition, "", 0, FALSE,
                                 petri_net, call.count + 1)
    /\ UNCHANGED <<pc, builder, paths_call, search, previous_graph, aco>>

AddEdge ==
    /\ pc = "net"
    /\ call.count < MaxCalls
    /\ \E node1 \in PlaceNames \cup TransitionNames,
          node2 \in PlaceNames \cup TransitionNames, weight \in Weights :
          /\ petri_net' = add_edge(petri_net, node1, node2, weight)
          /\ call' = BuilderCall("add_edge", node1, node2, weight,
                                 add_edge_raises(petri_net, node1, node2),
                                 petri_net, call.count + 1)
    /\ UNCHANGED <<pc, builder, paths_call, search, previous_graph, aco>>

\* construct_petri makes its own PetriNet(), so what the caller built
\* before has no part in it: the model calls it in the initial state
ConstructPetri ==
    /\ pc = "net"
    /\ call.count = 0
    /\ \E components \in ComponentLists, signature \in Signatures :
          /\ petri_net' = construct_petri(components, signature)
          /\ call' = [op |-> "construct_petri", components |-> components,
                      signature |-> signature, raised |-> FALSE,
                      before |-> EmptyNet, count |-> 1]
    /\ pc' = "constructed"
    /\ UNCHANGED <<builder, paths_call, search, previous_graph, aco>>

NetNext == AddPlace \/ AddTransition \/ AddEdge \/ ConstructPetri

NetSpec == NetInit /\ [][NetNext]_vars

(***************************************************************************)
(* C24: add_edge between two places, or between two transitions, raises    *)
(* the invalid-node error and leaves the net's edge table as it was        *)
(* before the call.                                                        *)
(***************************************************************************)
SameKind(net, node1, node2) ==
    \/ node1 \in net.places /\ node2 \in net.places
    \/ node1 \in net.transitions /\ node2 \in net.transitions

C24_SameKindEdgeRaises ==
    (call.op = "add_edge" /\ SameKind(call.before, call.node1, call.node2))
    => /\ call.raised
       /\ petri_net.edges = call.before.edges

\* add_edge was called with two transitions of a net that has edges
C24_Witness ==
    /\ call.op = "add_edge"
    /\ call.node1 \in call.before.transitions
    /\ call.node2 \in call.before.transitions
    /\ call.before.edges # <<>>
    /\ call.raised

(***************************************************************************)
(* C25: add_edge raises whenever one of its two nodes is neither a place   *)
(* nor a transition of the net, the source node included, and the edge     *)
(* table never holds an edge from or to such a node.                       *)
(***************************************************************************)
Declared(net, node) == node \in net.places \cup net.transitions

C25_UndeclaredEndpointRaises ==
    /\ (/\ call.op = "add_edge"
        /\ \/ ~Declared(call.before, call.node1)
           \/ ~Declared(call.before, call.node2))
       => call.raised
    /\ pc = "net" =>
           \A i \in 1..Len(petri_net.edges) :
               /\ Declared(petri_net, petri_net.edges[i][1])
               /\ \A j \in 1..Len(petri_net.edges[i][2]) :
                      Declared(petri_net, petri_net.edges[i][2][j][1])

(***************************************************************************)
(* C26: after any sequence of add_place, add_transition and add_edge       *)
(* calls, and in every net that construct_petri returns, a transition has  *)
(* at most one outgoing edge; a second add_edge from a transition to       *)
(* another place does not leave it with two output places.                 *)
(***************************************************************************)
C26_OneOutgoingEdge ==
    \A transition \in petri_net.transitions :
        Cardinality(OutputPlaces(petri_net, transition)) <= 1

(***************************************************************************)
(* C27: the reachability graph is immutable after construction: no step of *)
(* find_paths and no step of ant_colony_optimization (initialize_pheromone,*)
(* construct_path, update_pheromone) adds, removes or changes a node or an *)
(* edge of the graph, and none changes the start or the desired marking    *)
(* that was passed in.                                                     *)
(***************************************************************************)
InFindPaths == pc = "searching"

InAntColony == pc \in {"rollout", "rolled", "update", "returning"}

C27_GraphImmutable ==
    [][/\ (pc = "done" /\ pc' \in {"searching", "rollout", "aco_raised"})
          => /\ reachability_graph' = reachability_graph
             /\ pc' = "searching" => search'.start \in StartMarkings
             /\ pc' # "searching" => /\ aco'.graph = reachability_graph
                                     /\ aco'.start \in AcoStarts
                                     /\ aco'.desired \in AcoDesired
       /\ InFindPaths
          => /\ reachability_graph' = reachability_graph
             /\ search'.start = search.start
             /\ search'.desired = search.desired
       /\ InAntColony
          => /\ reachability_graph' = reachability_graph
             /\ aco'.graph = aco.graph
             /\ aco'.start = aco.start
             /\ aco'.desired = aco.desired]_vars

\* an ant that started at the start marking has moved on, pheromone has been
\* updated once, and find_paths has returned paths on a graph with edges
C27_Witness ==
    \/ /\ pc = "rollout"
       /\ aco.iteration > 0
       /\ aco.ant.path # <<>>
       /\ aco.ant.current_marking # aco.start
       /\ aco.graph.edges # <<>>
    \/ /\ pc = "searched"
       /\ paths_call.result # <<>>
       /\ reachability_graph.edges # <<>>

(***************************************************************************)
(* C28: the graph built by construct_reachability_graph has no self-loop   *)
(* edge: a transition whose firing leaves the marking unchanged labels no  *)
(* edge and occurs in no path that find_paths returns; for the Shape /     *)
(* Point2D net with start {Shape: 1} and desired {Point2D: 1}, find_paths  *)
(* returns exactly [[createTransShape]].                                   *)
(***************************************************************************)
\* firing the transition on the marking returns the same token counts
LeavesUnchanged(net, transition, marking) ==
    \E fired \in {execute_transition(net, transition, marking)} :
        fired.status = "returned" /\ DictEq(fired.value, marking)

\* the transition changes no marking of the graph
NoEffect(net, graph, transition) ==
    \A marking \in graph.nodes : LeavesUnchanged(net, transition, marking)

ShapeStart == <<<<"Shape", 1>>, <<"string", 0>>, <<"Point2D", 0>>, <<"double", 0>>>>

ShapeDesired == <<<<"Shape", 0>>, <<"string", 0>>, <<"Point2D", 1>>, <<"double", 0>>>>

C28_NoSelfLoopEdge ==
    /\ \A e \in GraphEdges(reachability_graph) :
          /\ ~DictEq(e[3], e[1])
          /\ ~LeavesUnchanged(petri_net, e[2], e[1])
    /\ pc = "searched"
       => /\ \A i \in 1..Len(paths_call.result) :
                \A j \in 1..Len(paths_call.result[i]) :
                    ~NoEffect(petri_net, reachability_graph,
                              paths_call.result[i][j])
          /\ (/\ petri_net = ShapeNet(1)
              /\ paths_call.start = ShapeStart
              /\ paths_call.desired = ShapeDesired)
             => paths_call.result = <<<<"createTransShape">>>>

\* find_paths returned on the Shape / Point2D net with the start and desired
\* markings of the test; setToRotation is enabled at the start and firing it
\* returns the start marking
C28_Witness ==
    /\ pc = "searched"
    /\ petri_net = ShapeNet(1)
    /\ paths_call.start = ShapeStart
    /\ paths_call.desired = ShapeDesired
    /\ paths_call.result # <<>>
    /\ RuleEnabled(petri_net, "setToRotation", ShapeStart)
    /\ LeavesUnchanged(petri_net, "setToRotation", ShapeStart)

(***************************************************************************)
(* C29: in the net that construct_petri returns, for every order of the    *)
(* component list, each place starts with as many tokens as the            *)
(* user-provided signature has parameters of that type (0 when it has      *)
(* none), also when the type is the return type of an earlier component    *)
(* before it is a parameter type of a later one; and each input edge has   *)
(* as weight the number of parameters of that type of the component.       *)
(***************************************************************************)
ParamsOfType(function, type) ==
    Cardinality({i \in 1..Len(function.params) : function.params[i][2] = type})

C29_PlacesSeededFromSignature ==
    pc = "constructed"
    => /\ \A place \in petri_net.places :
              Tok(petri_net.place_markings, place)
                  = ParamsOfType(call.signature, place)
       /\ \A i \in 1..Len(call.components) :
              \A place \in petri_net.places :
                  ParamsOfType(call.components[i], place) > 0
                  => /\ DictHas(petri_net.edges, place)
                     /\ DictHas(DictGet(petri_net.edges, place),
                                call.components[i].name)
                     /\ Weight(petri_net, place, call.components[i].name)
                            = ParamsOfType(call.components[i], place)

(***************************************************************************)
(* C30: in the net with places P1 (2 tokens), P2 (1), P3 (0), transition   *)
(* T1, input edge P1 -> T1 of weight 2 and output edge T1 -> P2 of weight  *)
(* 1, firing T1 on {P1: 2, P2: 1, P3: 0} yields {P1: 0, P2: 2, P3: 0}.     *)
(***************************************************************************)
C30_FirstTestNetFiring ==
    (/\ call.op = "execute_transition"
     /\ petri_net = OneInputNet(2, 1, 0)
     /\ call.transition = "T1"
     /\ call.marking = <<<<"P1", 2>>, <<"P2", 1>>, <<"P3", 0>>>>)
    => /\ call.result.status = "returned"
       /\ call.result.value = <<<<"P1", 0>>, <<"P2", 2>>, <<"P3", 0>>>>

\* T1 of that net was fired on {P1: 2, P2: 1, P3: 0}
C30_Witness ==
    /\ call.op = "execute_transition"
    /\ petri_net.places = {"P1", "P2", "P3"}
    /\ petri_net.transitions = {"T1"}
    /\ petri_net.edges = <<<<"P1", <<<<"T1", 2>>>>>>, <<"T1", <<<<"P2", 1>>>>>>>>
    /\ call.transition = "T1"
    /\ call.marking = <<<<"P1", 2>>, <<"P2", 1>>, <<"P3", 0>>>>
    /\ call.result.status = "returned"

(***************************************************************************)
(* C31: in the net with input edges P1 -> T1 of weight 2 and P3 -> T1 of   *)
(* weight 1 and output edge T1 -> P2 of weight 1, firing T1 on             *)
(* {P1: 2, P2: 1, P3: 1} yields {P1: 0, P2: 3, P3: 0}.                     *)
(***************************************************************************)
C31_SecondTestNetFiring ==
    (/\ call.op = "execute_transition"
     /\ petri_net = TwoInputNet(2, 1, 1)
     /\ call.transition = "T1"
     /\ call.marking = <<<<"P1", 2>>, <<"P2", 1>>, <<"P3", 1>>>>)
    => /\ call.result.status = "returned"
       /\ call.result.value = <<<<"P1", 0>>, <<"P2", 3>>, <<"P3", 0>>>>

\* T1 of that net, with its two input places, was fired on
\* {P1: 2, P2: 1, P3: 1}
C31_Witness ==
    /\ call.op = "execute_transition"
    /\ petri_net.places = {"P1", "P2", "P3"}
    /\ petri_net.transitions = {"T1"}
    /\ petri_net.edges = <<<<"P1", <<<<"T1", 2>>>>>>, <<"T1", <<<<"P2", 1>>>>>>,
                           <<"P3", <<<<"T1", 1>>>>>>>>
    /\ call.transition = "T1"
    /\ call.marking = <<<<"P1", 2>>, <<"P2", 1>>, <<"P3", 1>>>>
    /\ call.result.status = "returned"

(***************************************************************************)
(* C32: several transitions that lead from the same marking to the same    *)
(* successor each give their own path: a transition from start straight to *)
(* desired is a one-step path of the result whatever other transitions     *)
(* reached desired before it.  In the net where Multiplication, Addition   *)
(* and Subtraction each take 2 tokens from int and put 1 into int, the     *)
(* graph built from {int: 2} searched toward {int: 1} gives exactly        *)
(* [Multiplication], [Addition], [Subtraction], in that order.             *)
(***************************************************************************)
IntStart == <<<<"int", 2>>, <<"str", 0>>, <<"bool", 0>>>>

IntDesired == <<<<"int", 1>>, <<"str", 0>>, <<"bool", 0>>>>

C32_ParallelTransitionsEachGivePath ==
    pc = "searched"
    => /\ ~DictEq(paths_call.start, paths_call.desired)
          => \A e \in GraphEdges(reachability_graph) :
                 (e[1] = paths_call.start /\ DictEq(e[3], paths_call.desired))
                 => \E i \in 1..Len(paths_call.result) :
                        paths_call.result[i] = <<e[2]>>
       /\ (/\ petri_net = IntNet(2, 0)
           /\ paths_call.start = IntStart
           /\ paths_call.desired = IntDesired)
          => paths_call.result
                 = <<<<"Multiplication">>, <<"Addition">>, <<"Subtraction">>>>

\* find_paths returned on the graph of that net, in which three edges lead
\* from {int: 2} to {int: 1}
C32_Witness ==
    /\ pc = "searched"
    /\ petri_net = IntNet(2, 0)
    /\ paths_call.start = IntStart
    /\ paths_call.desired = IntDesired
    /\ Cardinality({e \in GraphEdges(reachability_graph) :
                       e[1] = IntStart /\ e[3] = IntDesired}) = 3
    /\ Len(paths_call.result) = 3

(***************************************************************************)
(* C33: on the three-edge graph of test_ant_colony_optimization with start *)
(* {A: 0, B: 0, C: 0} and desired {A: 1, B: 1, C: 0},                      *)
(* ant_colony_optimization returns [transition1, transition2] whenever at  *)
(* least one rollout of the run reached desired, for every outcome of the  *)
(* random draws.                                                           *)
(***************************************************************************)
C33_ReturnsPathToDesired ==
    (/\ pc = "aco_returned"
     /\ aco.graph = TestGraph
     /\ aco.start = ABC(0, 0, 0)
     /\ aco.desired = ABC(1, 1, 0)
     /\ \E k \in 1..Len(aco.rollouts) :
            DictEq(aco.rollouts[k].current_marking, aco.desired))
    => aco.best_path = <<"transition1", "transition2">>

(***************************************************************************)
(* C34: the ant-colony search runs on any graph produced by                *)
(* construct_reachability_graph: initialize_pheromone completes without    *)
(* error on such a graph, also on one that has markings with no outgoing   *)
(* edge, and afterwards the pheromone table holds the weight 1.0 for every *)
(* transition that labels an edge of the graph and has no other key.       *)
(***************************************************************************)
EdgeLabels(graph) == {e[2] : e \in GraphEdges(graph)}

C34_InitializesOnBuiltGraph ==
    [][(pc = "done" /\ pc' \in {"rollout", "aco_raised"})
       => /\ pc' = "rollout"
          /\ aco'.raised_in = ""
          /\ DOMAIN aco'.pheromone = EdgeLabels(reachability_graph)
          /\ \A t \in DOMAIN aco'.pheromone : aco'.pheromone[t] = <<1, 1>>]_vars

(***************************************************************************)
(* C35: the pheromone deposit of a rollout depends only on its transition  *)
(* sequence, not on whether it reached desired: the table after a round is *)
(* the table before it, evaporated, plus what the paths of all rollouts of *)
(* the round deposit, whatever their final markings and whatever the       *)
(* desired marking; a rollout with an empty path deposits nothing and      *)
(* divides nothing by zero.                                                *)
(***************************************************************************)
\* what update_pheromone deposits on t for one path: 1 / len(path) for each
\* occurrence of t before the last position
PathDeposit(t, path) ==
    IF path = <<>> THEN <<0, 1>>
    ELSE Frac(Cardinality({i \in 1..(Len(path) - 1) : path[i] = t}), Len(path))

RECURSIVE RolloutDeposits(_, _, _, _)
RolloutDeposits(t, rollouts, from, to) ==
    IF from > to THEN <<0, 1>>
    ELSE FracAdd(PathDeposit(t, rollouts[from].path),
                 RolloutDeposits(t, rollouts, from + 1, to))

\* the rollouts of the round that the last pheromone update closed
LastRoundFirst == (aco.iteration - 1) * aco.num_ants + 1

LastRoundLast == aco.iteration * aco.num_ants

C35_DepositDependsOnPathOnly ==
    (AcoRunning /\ aco.iteration >= 1)
    => \A t \in DOMAIN aco.pheromone :
           aco.pheromone[t] =
               FracAdd(FloatMul(aco.round_pheromone[t],
                                FracAdd(<<1, 1>>, Frac(-aco.evaporation_rate[1],
                                                       aco.evaporation_rate[2]))),
                       RolloutDeposits(t, aco.rollouts,
                                       LastRoundFirst, LastRoundLast))

\* a round was closed in which one rollout had an empty path and another
\* stopped, away from desired, with a path of two or more transitions
C35_Witness ==
    /\ AcoRunning
    /\ aco.iteration >= 1
    /\ \E j, k \in LastRoundFirst..LastRoundLast :
          /\ aco.rollouts[j].path = <<>>
          /\ Len(aco.rollouts[k].path) >= 2
          /\ ~DictEq(aco.rollouts[k].current_marking, aco.desired)
          /\ \E t \in DOMAIN aco.pheromone :
                 PathDeposit(t, aco.rollouts[k].path) # <<0, 1>>

(***************************************************************************)
(* C36: with an evaporation rate in [0, 1), at every point of a run of     *)
(* ant_colony_optimization every pheromone weight is strictly positive and *)
(* the keys of the pheromone table are the keys set at initialization, so  *)
(* the total that normalises the selection probabilities is never zero.    *)
(***************************************************************************)
C36_WeightsStayPositive ==
    AcoRunning
    => /\ DOMAIN aco.pheromone = Range(aco.keys)
       /\ \A t \in DOMAIN aco.pheromone : aco.pheromone[t][1] > 0
       /\ total_of(aco.pheromone, aco.keys, Len(aco.keys))[1] > 0

(***************************************************************************)
(* C37: during construct_reachability_graph each distinct marking is       *)
(* expanded (its enabled transitions computed and fired) at most once,     *)
(* however many times it was pushed onto the worklist; so no (marking,     *)
(* transition, successor) edge is discovered twice and the test for an     *)
(* edge already recorded never skips anything.                             *)
(***************************************************************************)
\* the edge that the next pass of the for-loop discovers, <<>> when the
\* firing raises or leaves the marking as it is
NextDiscovered ==
    LET fired == execute_transition(petri_net, Head(enabled_transitions),
                                    current_markings)
    IN  IF fired.status = "raised" \/ fired.value = current_markings
        THEN <<>>
        ELSE <<current_markings, Head(enabled_transitions), fired.value>>

C37_EachMarkingExpandedOnce ==
    /\ \A i, j \in 1..Len(expansions) :
           i # j => ~DictEq(expansions[i], expansions[j])
    /\ (pc = "expanding" /\ enabled_transitions # <<>>)
       => NextDiscovered \notin visited_edges

\* the builder takes from the worklist a marking that it has expanded
\* before (it was pushed once for each edge that leads to it)
C37_Witness ==
    /\ pc = "building"
    /\ worklist # <<>>
    /\ Head(worklist) \in visited_markings
    /\ Head(worklist) \in Range(expansions)
    /\ visited_edges # {}

(***************************************************************************)
(* C38: in every graph that construct_reachability_graph returns, the      *)
(* source marking and the successor marking of every edge are nodes, the   *)
(* initial marking of the net is a node, and each (marking, transition)    *)
(* pair has at most one successor.                                         *)
(***************************************************************************)
C38_ReturnedGraphWellFormed ==
    pc = "done"
    => /\ \A e \in GraphEdges(reachability_graph) :
              /\ e[1] \in reachability_graph.nodes
              /\ e[3] \in reachability_graph.nodes
       /\ petri_net.place_markings \in reachability_graph.nodes
       /\ \A e1, e2 \in GraphEdges(reachability_graph) :
              (e1[1] = e2[1] /\ e1[2] = e2[2]) => e1[3] = e2[3]
       /\ \A i \in 1..Len(reachability_graph.edges) :
              /\ \A j \in 1..Len(reachability_graph.edges) :
                     reachability_graph.edges[i][1] = reachability_graph.edges[j][1]
                     => i = j
              /\ \A j, k \in 1..Len(reachability_graph.edges[i][2]) :
                     reachability_graph.edges[i][2][j][1]
                         = reachability_graph.edges[i][2][k][1]
                     => j = k

\* the builder returned a graph with edges, one of them into a marking that
\* has no outgoing edge of its own, and a marking with two outgoing edges
C38_Witness ==
    /\ pc = "done"
    /\ \E e \in GraphEdges(reachability_graph) :
           ~DictHas(reachability_graph.edges, e[3])
    /\ \E i \in 1..Len(reachability_graph.edges) :
           Len(reachability_graph.edges[i][2]) >= 2

(***************************************************************************)
(* C39: construct_reachability_graph reads the net without changing it:    *)
(* after the call the net's places, transitions, edge weights and current  *)
(* (initial) marking are the same as before it, so firing transitions      *)
(* during exploration never consumes the net's own tokens.                 *)
(***************************************************************************)
InBuilder == pc \in {"idle", "building", "expanding"}

C39_BuilderLeavesNetUnchanged ==
    [][(InBuilder /\ pc' \in {"building", "expanding", "done", "raised"})
       => /\ petri_net'.places = petri_net.places
          /\ petri_net'.transitions = petri_net.transitions
          /\ petri_net'.edges = petri_net.edges
          /\ petri_net'.place_markings = petri_net.place_markings]_vars

\* the builder returned after it fired a transition on the initial marking
\* of a net with tokens, and the successor has fewer tokens in some place
C39_Witness ==
    /\ pc = "done"
    /\ \E e \in GraphEdges(reachability_graph) :
          /\ e[1] = petri_net.place_markings
          /\ \E i \in 1..Len(e[1]) : e[3][i][2] < e[1][i][2]

====
